---- MODULE Spec2Model ----
(***************************************************************************)
(* Model of the w3vm front end: the string-interning Table (symbol.rs) and *)
(* the backtracking Lexer (lex.rs), the component-list evaluator (dfa.rs)  *)
(* the register machine (exec.rs) and the integer ranges of the numeric    *)
(* types (val.rs).                                                         *)
(*                                                                         *)
(* Text is a sequence of characters; a character is a one-element string,  *)
(* except U+0000 which is written "NUL" and the two-byte letter U+03BB     *)
(* which is written "LAM".  Offsets are byte offsets into the UTF-8     *)
(* source, as in the code.                                                 *)
(***************************************************************************)
EXTENDS Integers, Sequences, FiniteSets, TLC

VARIABLES
    source,      \* Lexer.source: the borrowed text, a sequence of characters
    chars,       \* Lexer.chars: number of characters the CharIndices iterator has yielded
    reversed,    \* Lexer.reversed: the pushback stack of <<offset, char>> pairs
    operators,   \* Lexer.operators: the registered spellings, a sequence of texts
    symbols,     \* one Table.symbols map per Table instance: text -> Symbol
    heap,        \* number of Arc<String> allocations made so far (next fresh address)
    result,      \* what the latest call of next() returned
    prev,        \* what the call before the latest one returned
    registered,  \* history: every spelling add_operator was called with
    returned,    \* history: the log of Table::intern calls, <<table, text, Symbol>> each
    query,       \* the latest Table::is_interned call and its answer
    dfa,         \* the locals of the running or finished call of SliceDFA::eval
    exec,        \* the latest call of exec_function: its arguments and what it left
    shrink       \* the latest call of shrink_integer: its arguments and what it returned

vars == <<source, chars, reversed, operators, symbols, heap, result, prev,
          registered, returned, query, dfa, exec, shrink>>

----------------------------------------------------------------------------
(* Bounds of the model.                                                    *)

MaxLen == 3
MaxOps == 2
MaxInterns == 4
MaxComment == 6
MaxPieces == 2
MaxHex == 7

----------------------------------------------------------------------------
(* Characters.                                                             *)

NUL == "NUL"
Lam == "LAM"

Letters == {"a", "b", "d", "e", "g", "n", "o", "t", "u", "x", "E", Lam}
DecDigits == {"0", "1", "2", "8", "9"}
Others == {NUL, "\n", " ", "\"", "*", "+", "-", ".", "/", "\\", "_", "{", "}"}
Alphabet == Letters \cup DecDigits \cup Others

\* The Unicode scalar value of a character; UTF-8 byte order is code point order.
Code(c) ==
    CASE c = NUL -> 0
      [] c = "\n" -> 10
      [] c = " " -> 32
      [] c = "\"" -> 34
      [] c = "*" -> 42
      [] c = "+" -> 43
      [] c = "-" -> 45
      [] c = "." -> 46
      [] c = "/" -> 47
      [] c = "0" -> 48
      [] c = "1" -> 49
      [] c = "2" -> 50
      [] c = "8" -> 56
      [] c = "9" -> 57
      [] c = "E" -> 69
      [] c = "\\" -> 92
      [] c = "_" -> 95
      [] c = "a" -> 97
      [] c = "b" -> 98
      [] c = "d" -> 100
      [] c = "e" -> 101
      [] c = "g" -> 103
      [] c = "n" -> 110
      [] c = "o" -> 111
      [] c = "t" -> 116
      [] c = "u" -> 117
      [] c = "x" -> 120
      [] c = "{" -> 123
      [] c = "}" -> 125
      [] c = Lam -> 955

\* char::len_utf8
len_utf8(c) == IF Code(c) < 128 THEN 1 ELSE IF Code(c) < 2048 THEN 2 ELSE 3

\* UnicodeXID::is_xid_start / is_xid_continue, char::is_whitespace
is_xid_start(c) == c \in Letters
is_xid_continue(c) == c \in Letters \cup DecDigits \cup {"_"}
is_whitespace(c) == c \in {" ", "\n"}

\* char::to_digit(radix): the digit's value, or -1 for None
to_digit(c, radix) ==
    LET v == CASE c \in DecDigits -> Code(c) - 48
               [] c \in {"a", "b", "d", "e"} -> Code(c) - 97 + 10
               [] c = "E" -> Code(c) - 65 + 10
               [] OTHER -> 36
    IN IF v < radix THEN v ELSE -1

is_digit(c, radix) == to_digit(c, radix) >= 0

----------------------------------------------------------------------------
(* Text: byte lengths, ordering, prefixes.                                 *)

RECURSIVE str_len(_)
str_len(s) == IF s = <<>> THEN 0 ELSE len_utf8(Head(s)) + str_len(Tail(s))

\* Ord for str: lexicographic on bytes
RECURSIVE str_lt(_, _)
str_lt(a, b) ==
    IF b = <<>> THEN FALSE
    ELSE IF a = <<>> THEN TRUE
    ELSE IF Code(Head(a)) # Code(Head(b)) THEN Code(Head(a)) < Code(Head(b))
    ELSE str_lt(Tail(a), Tail(b))

starts_with(s, p) == Len(p) <= Len(s) /\ SubSeq(s, 1, Len(p)) = p

\* a filter that keeps every character
filter_nothing(s) == s

\* the characters of s other than '_' (chars().filter(|&c| c != '_').collect())
filter_underscore(s) == SelectSeq(s, LAMBDA c : c # "_")

\* every sequence over alphabet A of length at most n
SeqsUpTo(A, n) == UNION {[1..k -> A] : k \in 0..n}

----------------------------------------------------------------------------
(* symbol.rs: Symbol and Table.                                            *)

Tables == {1, 2}
Empty == [t \in {} |-> 0]

\* Symbol::from_str_table: a handle to a fresh Arc<String> at address addr
from_str_table(src, addr) == [addr |-> addr, text |-> src]

\* a Symbol comparison by content instead of by address
symbol_eq_by_text(a, b) == a.text = b.text

\* impl PartialEq for Symbol: the addresses of the shared strings are compared
symbol_eq(a, b) == a.addr = b.addr

\* Table::is_interned
is_interned(tab, src) == src \in DOMAIN tab

\* an intern that never looks the text up
intern_always_new(tab, h, src) ==
    LET new_symbol == from_str_table(src, h)
    IN [sym |-> new_symbol, tab |-> (src :> new_symbol) @@ tab, heap |-> h + 1]

\* an intern that drops the older entries when it stores a new text
intern_evicting(tab, h, src) ==
    IF src \in DOMAIN tab
    THEN [sym |-> tab[src], tab |-> tab, heap |-> h]
    ELSE LET new_symbol == from_str_table(src, h)
         IN [sym |-> new_symbol, tab |-> (src :> new_symbol), heap |-> h + 1]

\* Table::intern on the map tab with h allocations made so far
intern(tab, h, src) ==
    IF src \in DOMAIN tab
    THEN [sym |-> tab[src], tab |-> tab, heap |-> h]
    ELSE LET new_symbol == from_str_table(src, h)
         IN [sym |-> new_symbol, tab |-> (src :> new_symbol) @@ tab, heap |-> h + 1]

----------------------------------------------------------------------------
(* lex.rs: the operator registry.                                          *)

\* slice::binary_search over the sorted vector v: Ok(index) or Err(insertion point)
RECURSIVE binary_search_from(_, _, _, _)
binary_search_from(v, s, lo, hi) ==
    IF lo >= hi THEN [found |-> FALSE, index |-> lo]
    ELSE LET mid == lo + (hi - lo) \div 2
         IN IF v[mid + 1] = s THEN [found |-> TRUE, index |-> mid]
            ELSE IF str_lt(v[mid + 1], s) THEN binary_search_from(v, s, mid + 1, hi)
            ELSE binary_search_from(v, s, lo, mid)

binary_search(v, s) == binary_search_from(v, s, 0, Len(v))

\* Vec::insert(index, s), index counted from 0
insert(v, index, s) == SubSeq(v, 1, index) \o <<s>> \o SubSeq(v, index + 1, Len(v))

\* an add_operator that pushes at the end instead of at the search position
add_operator_push(ops, op) ==
    LET r == binary_search(ops, op)
    IN IF r.found THEN ops ELSE Append(ops, op)

\* Lexer::add_operator
add_operator(ops, op) ==
    LET r == binary_search(ops, op)
    IN IF r.found THEN ops ELSE insert(ops, r.index, op)

----------------------------------------------------------------------------
(* lex.rs: the cursor.  A scan state st carries the fields next() changes: *)
(* chars, reversed, the Lexer's Table and the allocation count.            *)

\* byte offset of the k-th character of the source, k counted from 1
RECURSIVE offset_of(_)
offset_of(k) == IF k <= 1 THEN 0 ELSE offset_of(k - 1) + len_utf8(source[k - 1])

\* source.len()
source_len == str_len(source)

\* is byte offset i a character boundary of the source (str::is_char_boundary)
is_char_boundary(i) == \E k \in 1..(Len(source) + 1) : offset_of(k) = i

\* Lexer::tick
tick(st) ==
    IF st.reversed # <<>>
    THEN LET res == st.reversed[Len(st.reversed)]
         IN [i |-> res[1], c |-> res[2],
             st |-> [st EXCEPT !.reversed = SubSeq(@, 1, Len(@) - 1)]]
    ELSE IF st.chars < Len(source)
    THEN [i |-> offset_of(st.chars + 1), c |-> source[st.chars + 1],
          st |-> [st EXCEPT !.chars = @ + 1]]
    ELSE [i |-> source_len, c |-> NUL, st |-> st]

\* Lexer::untick
untick(st, index, c) == [st EXCEPT !.reversed = Append(@, <<index, c>>)]

\* Lexer::slice; the indexing panics unless both ends are character
\* boundaries in order
slice_ok(start_index, end_index) ==
    /\ start_index <= end_index
    /\ is_char_boundary(start_index)
    /\ is_char_boundary(end_index)

slice(start_index, end_index) ==
    LET ks == {k \in 1..Len(source) : offset_of(k) >= start_index /\ offset_of(k) < end_index}
    IN IF ks = {} THEN <<>>
       ELSE SubSeq(source, CHOOSE k \in ks : \A j \in ks : k <= j,
                           CHOOSE k \in ks : \A j \in ks : k >= j)

\* &source[start_index..]
slice_from(start_index) == slice(start_index, source_len)

\* the offset the next tick() will report
cursor(st) == tick(st).i

\* the scan state after the Table call whose outcome is r
with_table(st, r) == [st EXCEPT !.tab = r.tab, !.heap = r.heap]

\* Lexer::slice_intern: the Symbol, or a panic when the slice is invalid
slice_intern(st, start_index, end_index) ==
    IF ~slice_ok(start_index, end_index) THEN [ok |-> FALSE, st |-> st]
    ELSE [ok |-> TRUE,
          sym |-> intern(st.tab, st.heap, slice(start_index, end_index)).sym,
          st |-> with_table(st, intern(st.tab, st.heap, slice(start_index, end_index)))]

----------------------------------------------------------------------------
(* What a call of next() produces: Some(token) with the offset where the   *)
(* token's lexeme ends, None, a panic, or no return at all.                *)

NoToken == [type |-> "none"]
Some(tok, end, st) == [kind |-> "Some", tok |-> tok, end |-> end, st |-> st]
None(st) == [kind |-> "None", tok |-> NoToken, end |-> cursor(st), st |-> st]
Panic(st) == [kind |-> "Panic", tok |-> NoToken, end |-> cursor(st), st |-> st]
Hang(st) == [kind |-> "Hang", tok |-> NoToken, end |-> cursor(st), st |-> st]

\* Token::Identifier, Token::Whitespace and Token::Operator carry a Symbol
SymbolToken(type, sym) == [type |-> type, sym |-> sym]
\* Token::Number carries I64(v), U64(v) or F64(v * 10^exp)
Number(tag, val) == [type |-> "Number", tag |-> tag, v |-> val[1], exp |-> val[2]]
\* Token::String, BrokenString, Comment and BrokenComment carry text
TextToken(type, text) == [type |-> type, text |-> text]
Error(msg, arg) == [type |-> "Error", msg |-> msg, arg |-> arg]

----------------------------------------------------------------------------
(* next(): identifiers and whitespace (lex.rs 84-101).                     *)

\* lex.rs 90 and 99: the token over the interned slice r
run_token(type, index, r) ==
    IF r.ok THEN Some(SymbolToken(type, r.sym), index, r.st) ELSE Panic(r.st)

RECURSIVE identifier_loop(_, _)

\* an identifier loop body that does not push the ending character back
identifier_step_consuming(first_index, t) ==
    IF ~is_xid_continue(t.c)
    THEN run_token("Identifier", t.i, slice_intern(t.st, first_index, t.i))
    ELSE identifier_loop(first_index, t.st)

\* lex.rs 87-91: the loop body, t being what tick() returned
identifier_step(first_index, t) ==
    IF ~is_xid_continue(t.c)
    THEN run_token("Identifier", t.i,
                   slice_intern(untick(t.st, t.i, t.c), first_index, t.i))
    ELSE identifier_loop(first_index, t.st)

\* lex.rs 86-92
identifier_loop(first_index, st) == identifier_step(first_index, tick(st))

RECURSIVE whitespace_loop(_, _)

\* lex.rs 96-100: the loop body
whitespace_step(first_index, t) ==
    IF ~is_whitespace(t.c)
    THEN run_token("Whitespace", t.i,
                   slice_intern(untick(t.st, t.i, t.c), first_index, t.i))
    ELSE whitespace_loop(first_index, t.st)

\* lex.rs 95-101
whitespace_loop(first_index, st) == whitespace_step(first_index, tick(st))

----------------------------------------------------------------------------
(* Numeric parsing: str::parse::<i64>, u64::from_str_radix,                *)
(* str::parse::<f64>.  A parse yields ok and the value <<v, exp>>, which   *)
(* stands for v * 10^exp.                                                  *)

RECURSIVE digits_value(_, _)
digits_value(s, radix) ==
    IF s = <<>> THEN 0
    ELSE digits_value(SubSeq(s, 1, Len(s) - 1), radix) * radix + to_digit(s[Len(s)], radix)

RECURSIVE strip_zeros(_)
strip_zeros(s) == IF s # <<>> /\ Head(s) = "0" THEN strip_zeros(Tail(s)) ELSE s

\* the digits of the largest value of the target type, most significant first
i64_max_digits == <<9, 2, 2, 3, 3, 7, 2, 0, 3, 6, 8, 5, 4, 7, 7, 5, 8, 0, 7>>
u64_max_digits(radix) ==
    CASE radix = 16 -> [k \in 1..16 |-> 15]
      [] radix = 8 -> [k \in 1..22 |-> IF k = 1 THEN 1 ELSE 7]
      [] radix = 2 -> [k \in 1..64 |-> 1]

\* does the digit string sig, without leading zeros, denote a value above the
\* one whose digits are limit
exceeds(sig, radix, limit) ==
    \/ Len(sig) > Len(limit)
    \/ /\ Len(sig) = Len(limit)
       /\ \E k \in 1..Len(sig) :
             /\ to_digit(sig[k], radix) > limit[k]
             /\ \A j \in 1..(k - 1) : to_digit(sig[j], radix) = limit[j]

\* s.parse::<i64>() on a non-empty run of decimal digits
parse_i64(s) ==
    IF exceeds(strip_zeros(s), 10, i64_max_digits) THEN [ok |-> FALSE, val |-> <<0, 0>>]
    ELSE [ok |-> TRUE, val |-> <<digits_value(s, 10), 0>>]

\* u64::from_str_radix(s, radix) on a non-empty run of digits of that radix
u64_from_str_radix(s, radix) ==
    IF exceeds(strip_zeros(s), radix, u64_max_digits(radix))
    THEN [ok |-> FALSE, val |-> <<0, 0>>]
    ELSE [ok |-> TRUE, val |-> <<digits_value(s, radix), 0>>]

RECURSIVE normalize(_, _)
normalize(m, e) ==
    IF m = 0 THEN <<0, 0>>
    ELSE IF m % 10 = 0 THEN normalize(m \div 10, e + 1)
    ELSE <<m, e>>

\* the part of s before the first character of the set stop
RECURSIVE before(_, _)
before(s, stop) ==
    IF s = <<>> \/ Head(s) \in stop THEN <<>> ELSE <<Head(s)>> \o before(Tail(s), stop)

\* the part of s after the first character of the set stop
RECURSIVE after(_, _)
after(s, stop) ==
    IF s = <<>> THEN <<>> ELSE IF Head(s) \in stop THEN Tail(s) ELSE after(Tail(s), stop)

\* s.parse::<f64>() on digits [ '.' digits ] [ ('e'|'E') digits ]
parse_f64(s) ==
    [ok |-> TRUE,
     val |-> normalize(digits_value(before(s, {".", "e", "E"})
                                        \o after(before(s, {"e", "E"}), {"."}), 10),
                       digits_value(after(s, {"e", "E"}), 10)
                           - Len(after(before(s, {"e", "E"}), {"."})))]

\* the unwrap at 165, 167 and 183: the Number token, or a panic
number_token(tag, n, end, st) ==
    IF n.ok THEN Some(Number(tag, n.val), end, st) ELSE Panic(st)

----------------------------------------------------------------------------
(* next(): numbers (lex.rs 102-192).                                       *)

RECURSIVE digit_run(_)

\* the body of the loops at 113-120, 127-134 and 146-153
digit_run_step(t) ==
    IF ~is_digit(t.c, 10) /\ t.c # "_"
    THEN [last_index |-> t.i, st |-> untick(t.st, t.i, t.c)]
    ELSE digit_run(t.st)

\* the loops at 113-120, 127-134 and 146-153: skip a run of digits and '_',
\* push the character that ends it back and report its offset
digit_run(st) == digit_run_step(tick(st))

\* lex.rs 162-168: r is the end of the literal and the scan state there
decimal_parse(first_index, is_float, r) ==
    IF ~slice_ok(first_index, r.last_index) THEN Panic(r.st)
    ELSE IF is_float
    THEN number_token("F64", parse_f64(filter_underscore(slice(first_index, r.last_index))),
                      r.last_index, r.st)
    ELSE number_token("I64", parse_i64(filter_underscore(slice(first_index, r.last_index))),
                      r.last_index, r.st)

\* an exponent lookahead that pushes only the character after the marker
\* back, so the marker is consumed although no digit follows it
decimal_exponent_digit_consuming(first_index, saw_decimal, last_index, t, t2) ==
    IF is_digit(t2.c, 10)
    THEN decimal_parse(first_index, TRUE, digit_run(t2.st))
    ELSE decimal_parse(first_index, saw_decimal,
                       [last_index |-> t2.i, st |-> untick(t2.st, t2.i, t2.c)])

\* lex.rs 143-160: t is the 'e' or 'E' read and t2 the character after it
decimal_exponent_digit(first_index, saw_decimal, last_index, t, t2) ==
    IF is_digit(t2.c, 10)
    THEN decimal_parse(first_index, TRUE, digit_run(t2.st))
    ELSE decimal_parse(first_index, saw_decimal,
                       [last_index |-> last_index,
                        st |-> untick(untick(t2.st, t2.i, t2.c), t.i, t.c)])

\* lex.rs 139-160: t is the character read after the fraction
decimal_exponent(first_index, saw_decimal, last_index, t) ==
    IF t.c \in {"e", "E"}
    THEN decimal_exponent_digit(first_index, saw_decimal, last_index, t, tick(t.st))
    ELSE decimal_parse(first_index, saw_decimal,
                       [last_index |-> last_index, st |-> untick(t.st, t.i, t.c)])

\* lex.rs 139-141: r is the end of the integer part or of the fraction
decimal_after_fraction(first_index, saw_decimal, r) ==
    decimal_exponent(first_index, saw_decimal, r.last_index, tick(r.st))

\* a fraction scan that leaves a '.' alone unless a digit follows it
decimal_fraction_needs_digit(first_index, int, t) ==
    IF t.c = "." /\ is_digit(tick(t.st).c, 10)
    THEN decimal_after_fraction(first_index, TRUE, digit_run(t.st))
    ELSE decimal_after_fraction(first_index, FALSE,
                                [last_index |-> int.last_index,
                                 st |-> untick(t.st, t.i, t.c)])

\* lex.rs 122-137: int is the end of the integer part, t the character there
decimal_fraction(first_index, int, t) ==
    IF t.c = "."
    THEN decimal_after_fraction(first_index, TRUE, digit_run(t.st))
    ELSE decimal_after_fraction(first_index, FALSE,
                                [last_index |-> int.last_index,
                                 st |-> untick(t.st, t.i, t.c)])

\* lex.rs 122-124: int is the end of the integer part
decimal_integer(first_index, int) == decimal_fraction(first_index, int, tick(int.st))

\* lex.rs 110-168, entered with the second character pushed back
decimal(first_index, st) == decimal_integer(first_index, digit_run(st))

\* lex.rs 171-176: the radix a prefix letter selects, 0 for None
radix_of(second_char) ==
    CASE second_char = "x" -> 16
      [] second_char = "o" -> 8
      [] second_char = "b" -> 2
      [] OTHER -> 0

RECURSIVE radix_loop(_, _, _)

\* lex.rs 180-184: the loop body; the character that ends the run is not
\* pushed back
radix_step(third_index, radix, t) ==
    IF ~is_digit(t.c, radix) /\ t.c # "_"
    THEN IF ~slice_ok(third_index, t.i) THEN Panic(t.st)
         ELSE number_token("U64",
                           u64_from_str_radix(filter_underscore(slice(third_index, t.i)),
                                              radix),
                           t.i, t.st)
    ELSE radix_loop(third_index, radix, t.st)

\* the loop at 179-185
radix_loop(third_index, radix, st) == radix_step(third_index, radix, tick(st))

\* lex.rs 191-192
single_digit(first_index, digit, second_index, second_char, st) ==
    Some(Number("I64", <<digit, 0>>), first_index + 1, untick(st, second_index, second_char))

\* a radix fall-through that pushes the prefix letter back before the
\* character read after it, so the two come out in the wrong order
radix_prefix_swapped(first_index, digit, t2, t3) ==
    IF is_digit(t3.c, radix_of(t2.c))
    THEN radix_loop(t3.i, radix_of(t2.c), t3.st)
    ELSE single_digit(first_index, digit, t3.i, t3.c, untick(t3.st, t2.i, t2.c))

\* a radix literal whose parsed text starts at the prefix letter
radix_prefix_with_letter(first_index, digit, t2, t3) ==
    IF is_digit(t3.c, radix_of(t2.c))
    THEN radix_loop(t2.i, radix_of(t2.c), t3.st)
    ELSE single_digit(first_index, digit, t2.i, t2.c,
                      untick(untick(t3.st, t3.i, t3.c), t2.i, t2.c))

\* lex.rs 177-192: t2 is the prefix letter read and t3 the character after it
radix_prefix(first_index, digit, t2, t3) ==
    IF is_digit(t3.c, radix_of(t2.c))
    THEN radix_loop(t3.i, radix_of(t2.c), t3.st)
    ELSE single_digit(first_index, digit, t2.i, t2.c,
                      untick(untick(t3.st, t3.i, t3.c), t2.i, t2.c))

\* lex.rs 104-192: t2 is the second character read
number_second(first_index, digit, t2) ==
    IF is_digit(t2.c, 10) \/ t2.c \in {"_", ".", "e", "E"}
    THEN decimal(first_index, untick(t2.st, t2.i, t2.c))
    ELSE IF digit = 0 /\ radix_of(t2.c) # 0
    THEN radix_prefix(first_index, digit, t2, tick(t2.st))
    ELSE single_digit(first_index, digit, t2.i, t2.c, t2.st)

\* lex.rs 102-192, entered after the first character, a decimal digit, was read
number(first_index, first_char, st) ==
    number_second(first_index, to_digit(first_char, 10), tick(st))

----------------------------------------------------------------------------
(* next(): string literals (lex.rs 193-270).  Decoded text is a sequence   *)
(* of Unicode scalar values.                                               *)

\* the scalar values of a text
codes(s) == [k \in 1..Len(s) |-> Code(s[k])]

\* char::from_u32: is v a Unicode scalar value
from_u32(v) == v < 55296 \/ (v > 57343 /\ v <= 1114111)

\* lex.rs 209 and 214
broken_string(second_index, index, st) ==
    IF ~slice_ok(second_index, index) THEN Panic(st)
    ELSE Some(TextToken("BrokenString", codes(slice(second_index, index))), index, st)

\* the Error tokens of 231-261; the token ends where the scan stopped
error_token(msg, arg, st) == Some(Error(msg, arg), cursor(st), st)

RECURSIVE string_loop(_, _, _)
RECURSIVE unicode_digits(_, _, _)

\* a loop body that reports an overlong escape one character too late
unicode_digits_step_late(i, end_hex_index, t) ==
    IF t.c = "}" THEN [exit |-> "done", end_hex_index |-> t.i, c |-> t.c, st |-> t.st]
    ELSE IF i = 7 THEN [exit |-> "overlong", end_hex_index |-> end_hex_index, c |-> t.c, st |-> t.st]
    ELSE IF ~is_digit(t.c, 16)
    THEN [exit |-> "invalid", end_hex_index |-> end_hex_index, c |-> t.c, st |-> t.st]
    ELSE unicode_digits(i + 1, end_hex_index, t.st)

\* lex.rs 245-254: the body of the loop at iteration i
unicode_digits_step(i, end_hex_index, t) ==
    IF t.c = "}" THEN [exit |-> "done", end_hex_index |-> t.i, c |-> t.c, st |-> t.st]
    ELSE IF i = 6 THEN [exit |-> "overlong", end_hex_index |-> end_hex_index, c |-> t.c, st |-> t.st]
    ELSE IF ~is_digit(t.c, 16)
    THEN [exit |-> "invalid", end_hex_index |-> end_hex_index, c |-> t.c, st |-> t.st]
    ELSE unicode_digits(i + 1, end_hex_index, t.st)

\* the loop at 244-255 from iteration i
unicode_digits(i, end_hex_index, st) ==
    IF i >= 8 THEN [exit |-> "done", end_hex_index |-> end_hex_index, c |-> "", st |-> st]
    ELSE unicode_digits_step(i, end_hex_index, tick(st))

\* lex.rs 258-262
unicode_char(second_index, output, code_point, st) ==
    IF from_u32(code_point) THEN string_loop(second_index, Append(output, code_point), st)
    ELSE error_token("invalid unicode character escape", "", st)

\* lex.rs 244-262: u is how the loop over the hex digits ended
unicode_close(second_index, output, open_brace_index, u) ==
    IF u.exit = "overlong"
    THEN error_token("overlong unicode escape (can have at most 6 hex digits)", "", u.st)
    ELSE IF u.exit = "invalid"
    THEN error_token("invalid character in unicode escape: {}", u.c, u.st)
    ELSE IF ~slice_ok(open_brace_index + 1, u.end_hex_index) THEN Panic(u.st)
    ELSE IF slice(open_brace_index + 1, u.end_hex_index) = <<>> THEN Panic(u.st)
    ELSE unicode_char(second_index, output,
                      digits_value(slice(open_brace_index + 1, u.end_hex_index), 16), u.st)

\* lex.rs 239-262: open_brace is the character read after '\u'
unicode_escape(second_index, output, open_brace) ==
    IF open_brace.c # "{"
    THEN error_token("incorrect unicode escape sequence", "", open_brace.st)
    ELSE unicode_close(second_index, output, open_brace.i,
                       unicode_digits(0, open_brace.i, open_brace.st))

\* lex.rs 226-237: first and second are the values of the two characters read
\* after '\x', -1 for a character that is no hex digit
hex_escape(second_index, output, first, second, st) ==
    IF first >= 0 /\ second >= 0
    THEN IF from_u32(first * 16 + second)
         THEN string_loop(second_index, Append(output, first * 16 + second), st)
         ELSE error_token("this form of character escape may only be used with characters in the range [\\x00-\\x7f]", "", st)
    ELSE error_token("numeric character escape is too short", "", st)

\* lex.rs 213-263: t is the character read after the backslash
escape(second_index, output, t) ==
    CASE t.c = NUL -> broken_string(second_index, t.i, t.st)
      [] t.c = "n" -> string_loop(second_index, Append(output, 10), t.st)
      [] t.c = "t" -> string_loop(second_index, Append(output, 9), t.st)
      [] t.c = "\\" -> string_loop(second_index, Append(output, 92), t.st)
      [] t.c = "\"" -> string_loop(second_index, Append(output, 34), t.st)
      [] t.c = "x" -> hex_escape(second_index, output,
                                 to_digit(tick(t.st).c, 16),
                                 to_digit(tick(tick(t.st).st).c, 16),
                                 tick(tick(t.st).st).st)
      [] t.c = "u" -> unicode_escape(second_index, output, tick(t.st))
      [] OTHER -> string_loop(second_index, output, t.st)

\* lex.rs 207-268: the loop body
string_step(second_index, output, t) ==
    IF t.c = NUL THEN broken_string(second_index, t.i, t.st)
    ELSE IF t.c = "\\" THEN escape(second_index, output, tick(t.st))
    ELSE IF t.c = "\"" THEN Some(TextToken("String", output), t.i + 1, t.st)
    ELSE string_loop(second_index, Append(output, Code(t.c)), t.st)

\* the loop at 206-269
string_loop(second_index, output, st) == string_step(second_index, output, tick(st))

\* lex.rs 193-205, entered after the opening quote was read
string(first_index, st) ==
    IF first_index + 1 < source_len
    THEN string_loop(first_index + 1, <<>>, st)
    ELSE Some(TextToken("BrokenString", <<>>), first_index + 1, st)

----------------------------------------------------------------------------
(* next(): block comments (lex.rs 272-301).                                *)

RECURSIVE comment_loop(_, _, _, _)

\* lex.rs 294-296
comment_check(first_index, depth, last_index, st) ==
    IF depth # 0 THEN comment_loop(first_index, depth, last_index, st)
    ELSE IF ~slice_ok(first_index + 2, last_index) THEN Panic(st)
    ELSE Some(TextToken("Comment", slice(first_index + 2, last_index)), last_index + 2, st)

\* lex.rs 280-290: c is '/' or '*' and t2 the character read after it
comment_pair(first_index, depth, last_index, c, t2) ==
    IF c = "/" /\ t2.c = "*" THEN comment_check(first_index, depth + 1, last_index, t2.st)
    ELSE IF c = "*" /\ t2.c = "/" THEN comment_check(first_index, depth - 1, t2.i - 1, t2.st)
    ELSE comment_check(first_index, depth, last_index, t2.st)

\* lex.rs 279-296: the loop body
comment_step(first_index, depth, last_index, t) ==
    IF t.c \in {"/", "*"} THEN comment_pair(first_index, depth, last_index, t.c, tick(t.st))
    ELSE IF t.c # NUL THEN comment_check(first_index, depth, last_index, t.st)
    ELSE IF ~slice_ok(first_index + 2, source_len) THEN Panic(t.st)
    ELSE Some(TextToken("BrokenComment", slice_from(first_index + 2)), source_len, t.st)

\* the loop at 278-297
comment_loop(first_index, depth, last_index, st) ==
    comment_step(first_index, depth, last_index, tick(st))

----------------------------------------------------------------------------
(* next(): operators and end of input (lex.rs 303-340).                    *)

\* an operator loop that stops at the first spelling that matches
RECURSIVE best_match_first(_, _, _, _, _)
best_match_first(k, rest_of_source, max_op_len, best_operator, st) ==
    IF k > Len(operators)
    THEN [max_op_len |-> max_op_len, best_operator |-> best_operator, st |-> st]
    ELSE IF starts_with(rest_of_source, operators[k]) /\ str_len(operators[k]) > max_op_len
    THEN [max_op_len |-> str_len(operators[k]),
          best_operator |-> intern(st.tab, st.heap, operators[k]).sym,
          st |-> with_table(st, intern(st.tab, st.heap, operators[k]))]
    ELSE best_match_first(k + 1, rest_of_source, max_op_len, best_operator, st)

\* the loop at 315-325 from the k-th registered operator (k counted from 1)
RECURSIVE best_match(_, _, _, _, _)
best_match(k, rest_of_source, max_op_len, best_operator, st) ==
    IF k > Len(operators) \/ str_len(operators[k]) < max_op_len
    THEN [max_op_len |-> max_op_len, best_operator |-> best_operator, st |-> st]
    ELSE IF starts_with(rest_of_source, operators[k]) /\ str_len(operators[k]) > max_op_len
    THEN best_match(k + 1, rest_of_source, str_len(operators[k]),
                    intern(st.tab, st.heap, operators[k]).sym,
                    with_table(st, intern(st.tab, st.heap, operators[k])))
    ELSE best_match(k + 1, rest_of_source, max_op_len, best_operator, st)

RECURSIVE skip_to(_, _)

\* lex.rs 327-331: the loop body, st being the state before the tick()
skip_to_step(target, st, t) ==
    IF t.i = target THEN [ok |-> TRUE, st |-> untick(t.st, t.i, t.c)]
    ELSE IF t.st = st THEN [ok |-> FALSE, st |-> st]
    ELSE skip_to(target, t.st)

\* the loop at 326-332: read up to the offset target and push that position
\* back; the loop never ends when no tick() reports target
skip_to(target, st) == skip_to_step(target, st, tick(st))

\* lex.rs 333-340: m is the best match and w how the loop at 326-332 ended
operator_end(first_index, first_char, m, w) ==
    IF ~w.ok THEN Hang(w.st)
    ELSE IF m.max_op_len > 0
    THEN Some(SymbolToken("Operator", m.best_operator), first_index + m.max_op_len, w.st)
    ELSE IF first_char # NUL THEN Panic(w.st)
    ELSE None(w.st)

\* lex.rs 326-332: m is the best match
operator_skip(first_index, first_char, m) ==
    operator_end(first_index, first_char, m, skip_to(first_index + m.max_op_len, m.st))

\* lex.rs 307-325: st is the state with the two characters pushed back
operator_search(first_index, first_char, end_index, st) ==
    IF ~slice_ok(first_index, end_index) THEN Panic(st)
    ELSE operator_skip(first_index, first_char,
                       best_match(binary_search(operators, slice(first_index, end_index)).index + 1,
                                  slice_from(first_index), 0,
                                  intern(st.tab, st.heap, <<>>).sym,
                                  with_table(st, intern(st.tab, st.heap, <<>>))))

\* lex.rs 304-306: t is the character read after the first one
operator_lookahead(first_index, first_char, t) ==
    operator_search(first_index, first_char, t.i,
                    untick(untick(t.st, t.i, t.c), first_index, first_char))

\* lex.rs 303-340
operator_scan(first_index, first_char, st) ==
    operator_lookahead(first_index, first_char, tick(st))

----------------------------------------------------------------------------
(* Lexer::next (lex.rs 82-341).                                            *)

\* lex.rs 272-301: t is the '/' read and t2 the character after it
slash(t, t2) ==
    IF t2.c = "*" THEN comment_loop(t.i, 1, t2.i, t2.st)
    ELSE operator_scan(t.i, t.c, untick(t2.st, t2.i, t2.c))

\* a dispatch that does not try the identifier scanner
dispatch_no_identifier(t) ==
    IF is_whitespace(t.c) THEN whitespace_loop(t.i, t.st)
    ELSE IF is_digit(t.c, 10) THEN number(t.i, t.c, t.st)
    ELSE IF t.c = "\"" THEN string(t.i, t.st)
    ELSE IF t.c = "/" THEN slash(t, tick(t.st))
    ELSE operator_scan(t.i, t.c, t.st)

\* lex.rs 84-340: the dispatch on the first character t
dispatch(t) ==
    IF is_xid_start(t.c) THEN identifier_loop(t.i, t.st)
    ELSE IF is_whitespace(t.c) THEN whitespace_loop(t.i, t.st)
    ELSE IF is_digit(t.c, 10) THEN number(t.i, t.c, t.st)
    ELSE IF t.c = "\"" THEN string(t.i, t.st)
    ELSE IF t.c = "/" THEN slash(t, tick(t.st))
    ELSE operator_scan(t.i, t.c, t.st)

next(st) == dispatch(tick(st))

----------------------------------------------------------------------------
(* The state machine of a lexing session.                                  *)

\* the Table the Lexer interns into
LexTable == 1

Start == [kind |-> "Start", tok |-> NoToken, start |-> 0, end |-> 0]
NoQuery == [table |-> 0, text |-> <<>>, answer |-> FALSE]

\* no call of SliceDFA::eval and no call of exec_function made yet
NoEval ==
    [pc |-> "idle", components |-> <<>>, input |-> <<>>, next_input |-> <<>>,
     output |-> <<>>, outc |-> 0, state |-> 0, states_since_input |-> 0, ret |-> <<>>]
NoShrink ==
    [pc |-> "idle", number |-> <<0, 0, 0, 0>>, negative |-> FALSE, tp |-> "",
     fits |-> FALSE, ret |-> [kind |-> "none", tag |-> "", v |-> <<0, 0, 0, 0>>]]
NoExec ==
    [pc |-> "idle", func |-> <<>>, given |-> <<>>, reg |-> <<>>,
     res |-> [kind |-> "none", error |-> "", verb |-> "", type |-> "", reg |-> <<>>, pc |-> 0]]

\* Lexer::new (lex.rs 29-37) over a source of S, fresh Tables and an empty
\* operator vector
InitWith(S) ==
    /\ source \in S
    /\ chars = 0
    /\ reversed = <<>>
    /\ operators = <<>>
    /\ symbols = [T \in Tables |-> Empty]
    /\ heap = 0
    /\ result = Start
    /\ prev = Start
    /\ registered = {}
    /\ returned = <<>>
    /\ query = NoQuery
    /\ dfa = NoEval
    /\ exec = NoExec
    /\ shrink = NoShrink

\* a panic unwinds the caller and a call that never returns blocks it
Alive == result.kind \notin {"Panic", "Hang"}

\* the fields of the Lexer that next() reads and writes
scan_state == [chars |-> chars, reversed |-> reversed, tab |-> symbols[LexTable], heap |-> heap]

\* the Lexer after a call of next() that started at offset start and ended as r
Returns(start, r) ==
    /\ chars' = r.st.chars
    /\ reversed' = r.st.reversed
    /\ symbols' = [symbols EXCEPT ![LexTable] = r.st.tab]
    /\ heap' = r.st.heap
    /\ result' = [kind |-> r.kind, tok |-> r.tok, start |-> start, end |-> r.end]

\* one call of Lexer::next
LexerNext ==
    /\ Alive
    /\ Returns(cursor(scan_state), next(scan_state))
    /\ prev' = result
    /\ UNCHANGED <<source, operators, registered, returned, query, dfa, exec, shrink>>

\* one call of Lexer::add_operator
AddOperator(op) ==
    /\ Alive
    /\ Len(add_operator(operators, op)) <= MaxOps
    /\ operators' = add_operator(operators, op)
    /\ registered' = registered \cup {op}
    /\ UNCHANGED <<source, chars, reversed, symbols, heap, result, prev, returned, query,
                   dfa, exec, shrink>>

\* Sessions over operator characters, a letter, a digit and U+0000, with
\* operators that share prefixes.
GeneralAlphabet == {"a", "0", "+", "-", NUL}
OpSpellings ==
    {<<"+">>, <<"+", "+">>, <<"+", "-">>, <<"+", "-", "+">>, <<"-">>, <<NUL>>}

Init == InitWith(SeqsUpTo(GeneralAlphabet, MaxLen))

Next ==
    \/ LexerNext
    \/ \E op \in OpSpellings : AddOperator(op)

Spec == Init /\ [][Next]_vars

\* Sessions over identifier and whitespace runs, with registered spellings
\* that look like an identifier or a blank.
RunAlphabet == {"x", Lam, "0", "_", " ", "\n"}
RunSpellings == {<<"x">>, <<" ">>}

InitRuns == InitWith(SeqsUpTo(RunAlphabet, MaxLen))

NextRuns ==
    \/ LexerNext
    \/ \E op \in RunSpellings : AddOperator(op)

SpecRuns == InitRuns /\ [][NextRuns]_vars

\* Sessions over radix-prefixed literals: '0', a prefix letter and a tail.
RadixLetters == {"x", "o", "b"}
RadixTail == {"1", "8", "_", "g", "+"}
RadixSpellings == {<<"+">>, <<"x">>}

InitRadix ==
    InitWith({<<"0", r>> \o t : r \in RadixLetters, t \in SeqsUpTo(RadixTail, MaxLen - 1)})

NextRadix ==
    \/ LexerNext
    \/ \E op \in RadixSpellings : AddOperator(op)

SpecRadix == InitRadix /\ [][NextRadix]_vars

\* Sessions over decimal literals: a digit and a tail of digits, '_', '.',
\* exponent markers and an operator character.
DecimalFirst == {"0", "1"}
DecimalTail == {"1", "2", "_", ".", "e", "E", "+"}
DecimalSpellings == {<<"e">>, <<"+">>}

InitDecimal ==
    InitWith({<<d>> \o t : d \in DecimalFirst, t \in SeqsUpTo(DecimalTail, MaxLen)})

NextDecimal ==
    \/ LexerNext
    \/ \E op \in DecimalSpellings : AddOperator(op)

SpecDecimal == InitDecimal /\ [][NextDecimal]_vars

\* Sessions over block comments: '/*' and a tail of comment delimiters, a
\* letter and U+0000.
CommentTail == {"/", "*", "a", NUL}
CommentSpellings == {<<"/">>}

InitComment ==
    InitWith({<<"/", "*">> \o t : t \in SeqsUpTo(CommentTail, MaxComment)})

NextComment ==
    \/ LexerNext
    \/ \E op \in CommentSpellings : AddOperator(op)

SpecComment == InitComment /\ [][NextComment]_vars

\* Sessions over string literals: a quote, then up to MaxPieces pieces (a
\* character or an escape sequence each), a closing quote and a letter, cut
\* off at every length; and literals that open with a Unicode escape of up to
\* MaxHex hex digits.
Pieces ==
    {<<"a">>, <<NUL>>, <<Lam>>,
     <<"\\", "n">>, <<"\\", "t">>, <<"\\", "\\">>, <<"\\", "\"">>, <<"\\", "a">>,
     <<"\\", "x", "2", "1">>, <<"\\", "x", "8", "0">>, <<"\\", "x", "e", "e">>,
     <<"\\", "u", "{", "2", "1", "}">>}

RECURSIVE Bodies(_)
Bodies(n) ==
    IF n = 0 THEN {<<>>} ELSE Bodies(n - 1) \cup {b \o p : b \in Bodies(n - 1), p \in Pieces}

Prefixes(s) == {SubSeq(s, 1, n) : n \in 1..Len(s)}

HexRuns ==
    UNION {[1..n -> {"0", "1"}] : n \in 0..MaxHex}
        \cup {<<"2", "1">>, <<"d", "8", "0", "0">>, <<"d", "e", "e", "e">>, <<"e", "0", "0", "0">>}
HexEnds == {<<>>, <<"}">>, <<"g">>, <<"}", "\"">>, <<"}", "a", "\"">>}

StringSources ==
    UNION {Prefixes(<<"\"">> \o b \o <<"\"", "a">>) : b \in Bodies(MaxPieces)}
        \cup {<<"\"", "\\", "u", "{">> \o h \o e : h \in HexRuns, e \in HexEnds}
StringSpellings == {<<"}">>}

InitString == InitWith(StringSources)

NextString ==
    \/ LexerNext
    \/ \E op \in StringSpellings : AddOperator(op)

SpecString == InitString /\ [][NextString]_vars

\* Sessions in which spellings that look like an identifier, a blank, a
\* digit, a quote and a comment opening are registered next to '*'.
InitDispatch == InitWith(SeqsUpTo({"x", " ", "1", "\"", "/", "*"}, MaxLen))

NextDispatch ==
    \/ LexerNext
    \/ \E op \in {<<"x">>, <<" ">>, <<"1">>, <<"\"">>, <<"/", "*">>, <<"*">>} : AddOperator(op)

SpecDispatch == InitDispatch /\ [][NextDispatch]_vars

----------------------------------------------------------------------------
(* The state machine of two Tables used directly (symbol.rs 57-76).        *)

TableTexts == {<<>>, <<"a">>, <<"a", "b">>}

InitTable == InitWith({<<>>})

\* one call of Table::intern
TableIntern(T, src) ==
    /\ Len(returned) < MaxInterns
    /\ LET r == intern(symbols[T], heap, src)
       IN /\ symbols' = [symbols EXCEPT ![T] = r.tab]
          /\ heap' = r.heap
          /\ returned' = Append(returned, <<T, src, r.sym>>)
    /\ UNCHANGED <<source, chars, reversed, operators, result, prev, registered, query,
                   dfa, exec, shrink>>

\* one call of Table::is_interned
TableIsInterned(T, src) ==
    /\ query' = [table |-> T, text |-> src, answer |-> is_interned(symbols[T], src)]
    /\ UNCHANGED <<source, chars, reversed, operators, symbols, heap, result, prev,
                   registered, returned, dfa, exec, shrink>>

NextTable ==
    \/ \E T \in Tables, src \in TableTexts : TableIntern(T, src)
    \/ \E T \in Tables, src \in TableTexts : TableIsInterned(T, src)

SpecTable == InitTable /\ [][NextTable]_vars

----------------------------------------------------------------------------
(* The component-list evaluator (dfa.rs).  States are indices counted from *)
(* 0 as in the code; components[state] is the sequence element state + 1.  *)

MaxComponents == 2
MaxInput == 2
MaxOutput == 2

\* enum Component<I, O> (dfa.rs 4-8)
Output(o) == [kind |-> "Output", o |-> o]
Input(i, next_state) == [kind |-> "Input", i |-> i, next_state |-> next_state]
Jump(next_state) == [kind |-> "Jump", next_state |-> next_state]

\* Iterator::next: the Option it returns (empty for None) and the iterator
\* it leaves
iter_item(input) == IF input = <<>> THEN <<>> ELSE <<Head(input)>>
iter_rest(input) == IF input = <<>> THEN <<>> ELSE Tail(input)

\* return (outc, state)
eval_return(d) == [d EXCEPT !.pc = "return", !.ret = <<d.outc, d.state>>]

\* an Output arm that does not look at the length of the buffer
eval_output_unchecked(d, o) ==
    [d EXCEPT !.output = [k \in 1..(d.outc + 1) |->
                             IF k <= Len(d.output) /\ k <= d.outc THEN d.output[k] ELSE o],
              !.outc = d.outc + 1,
              !.state = d.state + 1,
              !.states_since_input = d.states_since_input + 1]

\* the Output arm (dfa.rs 32-40)
eval_output(d, o) ==
    IF d.outc >= Len(d.output)
    THEN eval_return(d)
    ELSE [d EXCEPT !.output[d.outc + 1] = o,
                   !.outc = d.outc + 1,
                   !.state = d.state + 1,
                   !.states_since_input = d.states_since_input + 1]

\* an Input arm that takes the next symbol of the input whether or not the
\* pending one matched
eval_input_greedy(d, i, next_state) ==
    IF d.next_input = <<>>
    THEN eval_return([d EXCEPT !.states_since_input = 0])
    ELSE [d EXCEPT !.states_since_input = 0,
                   !.state = IF i = d.next_input[1] THEN next_state ELSE d.state + 1,
                   !.next_input = iter_item(d.input),
                   !.input = iter_rest(d.input)]

\* the Input arm (dfa.rs 41-56); input.next() takes the head of the iterator
eval_input(d, i, next_state) ==
    IF d.next_input = <<>>
    THEN eval_return([d EXCEPT !.states_since_input = 0])
    ELSE IF i = d.next_input[1]
    THEN [d EXCEPT !.states_since_input = 0,
                   !.state = next_state,
                   !.next_input = iter_item(d.input),
                   !.input = iter_rest(d.input)]
    ELSE [d EXCEPT !.states_since_input = 0, !.state = d.state + 1]

\* the Jump arm (dfa.rs 57-63)
eval_jump(d, next_state) ==
    IF d.states_since_input + 1 > Len(d.components)
    THEN eval_return([d EXCEPT !.states_since_input = d.states_since_input + 1])
    ELSE [d EXCEPT !.states_since_input = d.states_since_input + 1, !.state = next_state]

\* one iteration of the loop (dfa.rs 29-64): the lookup self.components[state]
\* panics on an index that is out of bounds, and the match takes the arm of
\* the component
eval_loop(d) ==
    IF d.state >= Len(d.components)
    THEN [d EXCEPT !.pc = "panic"]
    ELSE IF d.components[d.state + 1].kind = "Output"
    THEN eval_output(d, d.components[d.state + 1].o)
    ELSE IF d.components[d.state + 1].kind = "Input"
    THEN eval_input(d, d.components[d.state + 1].i, d.components[d.state + 1].next_state)
    ELSE eval_jump(d, d.components[d.state + 1].next_state)

\* SliceDFA::eval up to the loop (dfa.rs 22-28)
eval(components, state, input, output) ==
    [pc |-> "loop", components |-> components,
     input |-> iter_rest(input), next_input |-> iter_item(input),
     output |-> output, outc |-> 0, state |-> state, states_since_input |-> 0,
     ret |-> <<>>]

\* a call of SliceDFA::eval enters the function
EvalCall(components, state, input, output) ==
    /\ dfa.pc = "idle"
    /\ dfa' = eval(components, state, input, output)
    /\ UNCHANGED <<source, chars, reversed, operators, symbols, heap, result, prev,
                   registered, returned, query, exec, shrink>>

\* the call runs one iteration of its loop
EvalLoop ==
    /\ dfa.pc = "loop"
    /\ dfa' = eval_loop(dfa)
    /\ UNCHANGED <<source, chars, reversed, operators, symbols, heap, result, prev,
                   registered, returned, query, exec, shrink>>

\* Component lists of up to MaxComponents components whose Input and Jump
\* targets are valid indices, over two input symbols and two output values;
\* inputs of up to MaxInput symbols; buffers of up to MaxOutput slots, filled
\* with a third value; every start state up to one past the last component.
InputSymbols == {"a", "b"}
OutputValues == {"p", "q"}
Blank == "z"

ComponentsOf(n) ==
    {Output(o) : o \in OutputValues}
        \cup {Input(i, t) : i \in InputSymbols, t \in 0..(n - 1)}
        \cup {Jump(t) : t \in 0..(n - 1)}

ComponentLists == UNION {[1..n -> ComponentsOf(n)] : n \in 1..MaxComponents}
Buffers == {[k \in 1..n |-> Blank] : n \in 0..MaxOutput}

InitDFA == InitWith({<<>>})

NextDFA ==
    \/ /\ dfa.pc = "idle"
       /\ \E components \in ComponentLists, input \in SeqsUpTo(InputSymbols, MaxInput),
             output \in Buffers :
               \E state \in 0..Len(components) : EvalCall(components, state, input, output)
    \/ EvalLoop

SpecDFA == InitDFA /\ [][NextDFA]_vars

\* the loop keeps running: a call that is in its loop takes its next iteration
SpecDFALive == InitDFA /\ [][NextDFA]_vars /\ WF_vars(EvalLoop)

----------------------------------------------------------------------------
(* The register machine (exec.rs).  Registers are indices counted from 0   *)
(* as in the code.  An f64 is a sign, a class and a magnitude: the model   *)
(* holds the integral values, the two zeros, the infinities and NaN; a     *)
(* quotient that is not integral is "inexact" and is kept out of the runs. *)

MaxInstructions == 3

Float(cls, neg, mag) == [cls |-> cls, neg |-> neg, mag |-> mag]
NaN == Float("nan", FALSE, 0)
Inexact == Float("inexact", FALSE, 0)

\* enum Val (exec.rs 16-22): one payload field per variant
Integer(x) == [type |-> "Integer", i |-> x, f |-> Float("fin", FALSE, 0), b |-> FALSE]
Imprecise(x) == [type |-> "Imprecise", i |-> 0, f |-> x, b |-> FALSE]
Bool(x) == [type |-> "Bool", i |-> 0, f |-> Float("fin", FALSE, 0), b |-> x]
Uncalculated == [type |-> "Uncalculated", i |-> 0, f |-> Float("fin", FALSE, 0), b |-> FALSE]

\* struct Instruction (exec.rs 65-71)
Instruction(verb, src, tgt, dst) == [verb |-> verb, src |-> src, tgt |-> tgt, dst |-> dst]

abs(x) == IF x < 0 THEN -x ELSE x

\* x as f64
as_f64(x) == Float("fin", x < 0, abs(x))

\* the value of a finite f64
signed(x) == IF x.neg THEN -x.mag ELSE x.mag

unordered(x, y) == x.cls \in {"nan", "inexact"} \/ y.cls \in {"nan", "inexact"}
poisoned(x, y) == IF x.cls = "inexact" \/ y.cls = "inexact" THEN Inexact ELSE NaN

\* x + y on f64: a zero sum is -0.0 only when both operands are negative
f64_add(x, y) ==
    IF unordered(x, y) THEN poisoned(x, y)
    ELSE IF x.cls = "inf" /\ y.cls = "inf" THEN (IF x.neg = y.neg THEN x ELSE NaN)
    ELSE IF x.cls = "inf" THEN x
    ELSE IF y.cls = "inf" THEN y
    ELSE IF signed(x) + signed(y) = 0 THEN Float("fin", x.neg /\ y.neg, 0)
    ELSE as_f64(signed(x) + signed(y))

\* x * y on f64
f64_mul(x, y) ==
    IF unordered(x, y) THEN poisoned(x, y)
    ELSE IF x.cls = "inf" \/ y.cls = "inf"
    THEN (IF (x.cls = "fin" /\ x.mag = 0) \/ (y.cls = "fin" /\ y.mag = 0)
          THEN NaN
          ELSE Float("inf", x.neg # y.neg, 0))
    ELSE Float("fin", x.neg # y.neg, x.mag * y.mag)

\* x / y on f64: a zero divisor gives an infinity, or NaN for 0.0 / 0.0
f64_div(x, y) ==
    IF unordered(x, y) THEN poisoned(x, y)
    ELSE IF x.cls = "inf" THEN (IF y.cls = "inf" THEN NaN ELSE Float("inf", x.neg # y.neg, 0))
    ELSE IF y.cls = "inf" THEN Float("fin", x.neg # y.neg, 0)
    ELSE IF y.mag = 0 THEN (IF x.mag = 0 THEN NaN ELSE Float("inf", x.neg # y.neg, 0))
    ELSE IF x.mag % y.mag = 0 THEN Float("fin", x.neg # y.neg, x.mag \div y.mag)
    ELSE Inexact

\* x % y on f64: the remainder has the sign of x
f64_rem(x, y) ==
    IF unordered(x, y) THEN poisoned(x, y)
    ELSE IF x.cls = "inf" THEN NaN
    ELSE IF y.cls = "inf" THEN x
    ELSE IF y.mag = 0 THEN NaN
    ELSE Float("fin", x.neg, x.mag % y.mag)

\* x < y on f64: false when either is NaN
f64_lt(x, y) ==
    /\ ~unordered(x, y)
    /\ \/ x.cls = "inf" /\ x.neg /\ ~(y.cls = "inf" /\ y.neg)
       \/ y.cls = "inf" /\ ~y.neg /\ ~(x.cls = "inf" /\ ~x.neg)
       \/ x.cls = "fin" /\ y.cls = "fin" /\ signed(x) < signed(y)

f64_eq(x, y) ==
    /\ ~unordered(x, y)
    /\ x.cls = y.cls
    /\ IF x.cls = "inf" THEN x.neg = y.neg ELSE signed(x) = signed(y)

\* what one instruction comes to: a value to store, an Err to return, or a panic
Stored(val) == [kind |-> "Ok", error |-> "", verb |-> "", type |-> "", val |-> val]
Err(error, verb, type) ==
    [kind |-> "Err", error |-> error, verb |-> verb, type |-> type, val |-> Uncalculated]
Unwind == [kind |-> "Panic", error |-> "", verb |-> "", type |-> "", val |-> Uncalculated]

\* run_imprecise_verb (exec.rs 107-120)
run_imprecise_verb(verb, x, y) ==
    CASE verb = "Add" -> Stored(Imprecise(f64_add(x, y)))
      [] verb = "Subtract" -> Stored(Imprecise(f64_add(x, [y EXCEPT !.neg = ~y.neg])))
      [] verb = "Multiply" -> Stored(Imprecise(f64_mul(x, y)))
      [] verb = "Divide" -> Stored(Imprecise(f64_div(x, y)))
      [] verb = "Modulus" -> Stored(Imprecise(f64_rem(x, y)))
      [] verb = "Less" -> Stored(Bool(f64_lt(x, y)))
      [] verb = "LessEqual" -> Stored(Bool(f64_lt(x, y) \/ f64_eq(x, y)))
      [] verb = "Greater" -> Stored(Bool(f64_lt(y, x)))
      [] verb = "GreaterEqual" -> Stored(Bool(f64_lt(y, x) \/ f64_eq(x, y)))
      [] OTHER -> Unwind

\* x / y on i64, which truncates toward zero
i64_div(x, y) ==
    IF (x < 0) = (y < 0) THEN abs(x) \div abs(y) ELSE -(abs(x) \div abs(y))

\* run_integer_verb with a Divide that stores a zero quotient for a zero divisor
run_integer_verb_total(verb, x, y) ==
    CASE verb = "Add" -> Stored(Integer(x + y))
      [] verb = "Subtract" -> Stored(Integer(x - y))
      [] verb = "Multiply" -> Stored(Integer(x * y))
      [] verb = "Divide" -> Stored(Integer(IF y = 0 THEN 0 ELSE i64_div(x, y)))
      [] verb = "Modulus" -> IF y = 0 THEN Unwind ELSE Stored(Integer(x - y * i64_div(x, y)))
      [] verb = "Less" -> Stored(Bool(x < y))
      [] verb = "LessEqual" -> Stored(Bool(x <= y))
      [] verb = "Greater" -> Stored(Bool(x > y))
      [] verb = "GreaterEqual" -> Stored(Bool(x >= y))
      [] verb = "Equal" -> Stored(Bool(x = y))
      [] OTHER -> Unwind

\* run_integer_verb (exec.rs 122-146), without the bitwise verbs and the
\* shifts; x % y panics on a zero divisor
run_integer_verb(verb, x, y) ==
    CASE verb = "Add" -> Stored(Integer(x + y))
      [] verb = "Subtract" -> Stored(Integer(x - y))
      [] verb = "Multiply" -> Stored(Integer(x * y))
      [] verb = "Divide" -> IF y = 0 THEN Err("DivisionByZero", "", "") ELSE Stored(Integer(i64_div(x, y)))
      [] verb = "Modulus" -> IF y = 0 THEN Unwind ELSE Stored(Integer(x - y * i64_div(x, y)))
      [] verb = "Less" -> Stored(Bool(x < y))
      [] verb = "LessEqual" -> Stored(Bool(x <= y))
      [] verb = "Greater" -> Stored(Bool(x > y))
      [] verb = "GreaterEqual" -> Stored(Bool(x >= y))
      [] verb = "Equal" -> Stored(Bool(x = y))
      [] OTHER -> Unwind

\* the arm of the arithmetic and ordering verbs (exec.rs 165-177) on the
\* operands x = reg[inst.src] and y = reg[inst.tgt]
exec_arithmetic(verb, x, y) ==
    CASE x.type = "Imprecise" /\ y.type = "Imprecise" -> run_imprecise_verb(verb, x.f, y.f)
      [] x.type = "Imprecise" /\ y.type = "Integer" -> run_imprecise_verb(verb, x.f, as_f64(y.i))
      [] x.type = "Integer" /\ y.type = "Imprecise" -> run_imprecise_verb(verb, as_f64(x.i), y.f)
      [] x.type = "Integer" /\ y.type = "Integer" -> run_integer_verb(verb, x.i, y.i)
      [] x.type = "Imprecise" /\ y.type \notin {"Imprecise", "Integer"} -> Err("Type", verb, y.type)
      [] OTHER -> Err("Type", verb, x.type)

\* what exec_function leaves: its result, the frame and the pc it stopped at
exec_stop(did, reg, pc) ==
    [kind |-> did.kind, error |-> did.error, verb |-> did.verb, type |-> did.type,
     reg |-> reg, pc |-> pc]

\* the loop of exec_function (exec.rs 162-223) for the verbs of
\* exec_arithmetic; indexing reg out of bounds panics
RECURSIVE exec_loop(_, _, _)
exec_store(instructions, reg, pc, did) ==
    IF did.kind # "Ok" THEN exec_stop(did, reg, pc)
    ELSE IF instructions[pc + 1].dst >= Len(reg) THEN exec_stop(Unwind, reg, pc)
    ELSE exec_loop(instructions, [reg EXCEPT ![instructions[pc + 1].dst + 1] = did.val], pc + 1)

exec_loop(instructions, reg, pc) ==
    IF pc >= Len(instructions) THEN exec_stop(Stored(Uncalculated), reg, pc)
    ELSE IF instructions[pc + 1].src >= Len(reg) \/ instructions[pc + 1].tgt >= Len(reg)
    THEN exec_stop(Unwind, reg, pc)
    ELSE exec_store(instructions, reg, pc,
                    exec_arithmetic(instructions[pc + 1].verb,
                                    reg[instructions[pc + 1].src + 1],
                                    reg[instructions[pc + 1].tgt + 1]))

\* exec_function (exec.rs 157-224)
exec_function(func, frame) == exec_loop(func, frame, 0)

\* every float held by the registers is one the model computes exactly
exact(reg) == \A k \in 1..Len(reg) : reg[k].f.cls # "inexact"

\* Frame::from_values (exec.rs 100-104): the caller builds the frame
FrameFromValues(values) ==
    /\ exec.pc = "idle"
    /\ exec' = [exec EXCEPT !.pc = "frame", !.given = values, !.reg = values]
    /\ UNCHANGED <<source, chars, reversed, operators, symbols, heap, result, prev,
                   registered, returned, query, dfa, shrink>>

\* the call of exec_function on func and the frame was left as stop says
ExecReturns(func, stop) ==
    /\ exact(stop.reg)
    /\ exec' = [exec EXCEPT !.pc = "done", !.func = func, !.reg = stop.reg, !.res = stop]
    /\ UNCHANGED <<source, chars, reversed, operators, symbols, heap, result, prev,
                   registered, returned, query, dfa, shrink>>

\* one call of exec_function on a Function and the frame
ExecFunction(func) ==
    /\ exec.pc = "frame"
    /\ ExecReturns(func, exec_function(func, exec.reg))

\* Functions of up to MaxInstructions instructions over two registers, which
\* hold integers, a float, or nothing calculated yet.
Verbs == {"Subtract", "Divide"}
Operands == {Integer(0), Integer(1), Imprecise(as_f64(0)), Uncalculated}
Frames == {<<x, y>> : x, y \in Operands}
Instructions == {Instruction(verb, src, tgt, dst) : verb \in Verbs, src, tgt, dst \in 0..1}

InitExec == InitWith({<<>>})

NextExec ==
    \/ \E values \in Frames : FrameFromValues(values)
    \/ /\ exec.pc = "frame"
       /\ \E func \in SeqsUpTo(Instructions, MaxInstructions) : ExecFunction(func)

SpecExec == InitExec /\ [][NextExec]_vars

\* Functions of up to MaxInstructions Subtract and Modulus instructions over
\* the same frames.
ModulusInstructions ==
    {Instruction(verb, src, tgt, dst) : verb \in {"Subtract", "Modulus"}, src, tgt, dst \in 0..1}

NextModulus ==
    \/ \E values \in Frames : FrameFromValues(values)
    \/ /\ exec.pc = "frame"
       /\ \E func \in SeqsUpTo(ModulusInstructions, MaxInstructions) : ExecFunction(func)

SpecModulus == InitExec /\ [][NextModulus]_vars

----------------------------------------------------------------------------
(* The integer ranges of the numeric types (val.rs).  A u64 or an i64 is   *)
(* its 64-bit pattern, four 16-bit limbs with the most significant first;  *)
(* the casts between u64 and i64 keep the pattern.                         *)

Zero64 == <<0, 0, 0, 0>>

\* the number of limbs at the low end of a that equal v
trailing(a, v) == Cardinality({k \in 1..4 : \A j \in k..4 : a[j] = v})

\* a + 1 and a - 1 on 64 bits
u64_inc(a) ==
    [k \in 1..4 |-> IF k > 4 - trailing(a, 65535) THEN 0
                    ELSE IF k = 4 - trailing(a, 65535) THEN a[k] + 1
                    ELSE a[k]]
u64_dec(a) ==
    [k \in 1..4 |-> IF k > 4 - trailing(a, 0) THEN 65535
                    ELSE IF k = 4 - trailing(a, 0) THEN a[k] - 1
                    ELSE a[k]]

\* -a on i64: the two's complement of the pattern
i64_neg(a) == u64_inc([k \in 1..4 |-> 65535 - a[k]])

\* a <= b on u64
u64_le(a, b) ==
    \/ a = b
    \/ \E k \in 1..4 : a[k] < b[k] /\ \A j \in 1..(k - 1) : a[j] = b[j]

\* 2^n for n below 64
pow2(n) == [k \in 1..4 |-> IF 4 - k = n \div 16 THEN 2 ^ (n % 16) ELSE 0]

\* max_integer_value_of_type (val.rs 42-56) for the integer types
max_integer_value_of_type(tp) ==
    CASE tp = "U8" -> u64_dec(pow2(8))
      [] tp = "U16" -> u64_dec(pow2(16))
      [] tp = "U32" -> u64_dec(pow2(32))
      [] tp = "U64" -> u64_dec(Zero64)
      [] tp = "I8" -> u64_dec(pow2(7))
      [] tp = "I16" -> u64_dec(pow2(15))
      [] tp = "I32" -> u64_dec(pow2(31))
      [] tp = "I64" -> u64_dec(pow2(63))

\* min_integer_value_of_type (val.rs 58-72) for the integer types
min_integer_value_of_type(tp) ==
    CASE tp \in {"U8", "U16", "U32", "U64"} -> Zero64
      [] tp = "I8" -> i64_neg(pow2(7))
      [] tp = "I16" -> i64_neg(pow2(15))
      [] tp = "I32" -> i64_neg(pow2(31))
      [] tp = "I64" -> i64_neg(pow2(63))

\* integer_fits_in_type (val.rs 74-85)
integer_fits_in_type(num, negative, tp) ==
    IF negative
    THEN IF num # Zero64
         THEN u64_le(u64_dec(num), i64_neg(u64_inc(min_integer_value_of_type(tp))))
         ELSE TRUE
    ELSE u64_le(num, max_integer_value_of_type(tp))

\* make_negative_i64 (val.rs 87-94)
make_negative_i64(num) ==
    IF num # Zero64 THEN u64_dec(i64_neg(u64_dec(num))) ELSE num

\* what shrink_integer comes to: None, Some(Number) with the variant and the
\* value sign-extended to 64 bits, or a panic
Shrunk(kind, tag, v) == [kind |-> kind, tag |-> tag, v |-> v]

\* -(number as iN) for I8, I16 and I32: negating the minimum of the type
\* overflows, which panics in a build with overflow checks and wraps in a
\* build without
negated(num, tp) ==
    IF i64_neg(num) = min_integer_value_of_type(tp)
    THEN {Shrunk("Panic", "", Zero64), Shrunk("Some", tp, i64_neg(num))}
    ELSE {Shrunk("Some", tp, i64_neg(num))}

\* shrink_integer (val.rs 96-126) for the integer types: the outcomes the
\* builds can produce
shrink_integer(num, negative, tp) ==
    IF ~integer_fits_in_type(num, negative, tp) THEN {Shrunk("None", "", Zero64)}
    ELSE IF ~negative THEN {Shrunk("Some", tp, num)}
    ELSE IF tp \in {"I8", "I16", "I32"} THEN negated(num, tp)
    ELSE IF tp = "I64" THEN {Shrunk("Some", tp, make_negative_i64(num))}
    ELSE {Shrunk("Panic", "", Zero64)}

\* one call of shrink_integer
ShrinkInteger(num, negative, tp) ==
    /\ shrink.pc = "idle"
    /\ \E ret \in shrink_integer(num, negative, tp) :
          shrink' = [pc |-> "done", number |-> num, negative |-> negative, tp |-> tp,
                     fits |-> integer_fits_in_type(num, negative, tp), ret |-> ret]
    /\ UNCHANGED <<source, chars, reversed, operators, symbols, heap, result, prev,
                   registered, returned, query, dfa, exec>>

\* The eight integer types, and the numbers 0, 1, u64::MAX - 1, u64::MAX and
\* the three around each power of two that bounds a type.
IntegerTypes == {"U8", "U16", "U32", "U64", "I8", "I16", "I32", "I64"}
Boundaries == {pow2(n) : n \in {7, 8, 15, 16, 31, 32, 63}}
Numbers ==
    {Zero64, u64_inc(Zero64), u64_dec(Zero64), u64_dec(u64_dec(Zero64))}
        \cup Boundaries \cup {u64_dec(b) : b \in Boundaries} \cup {u64_inc(b) : b \in Boundaries}

InitVal == InitWith({<<>>})

NextVal ==
    \E num \in Numbers, negative \in BOOLEAN, tp \in IntegerTypes :
        ShrinkInteger(num, negative, tp)

SpecVal == InitVal /\ [][NextVal]_vars

----------------------------------------------------------------------------
(* Vocabulary of the properties.                                           *)

\* the offset the next call of next() starts at
Cursor == cursor(scan_state)

\* the position (counted from 1) of the character at byte offset i
position_of(i) == CHOOSE k \in 1..(Len(source) + 1) : offset_of(k) = i

\* the set of registered spellings held by the operator vector
Registry == {operators[i] : i \in 1..Len(operators)}

\* the first position at or after k whose character is not a continuation of
\* a run of the given kind
RECURSIVE run_stop(_, _)
run_stop(k, kind) ==
    IF k > Len(source) THEN k
    ELSE IF kind = "Identifier" /\ is_xid_continue(source[k]) THEN run_stop(k + 1, kind)
    ELSE IF kind = "Whitespace" /\ is_whitespace(source[k]) THEN run_stop(k + 1, kind)
    ELSE k

\* the latest call returned a run token of the given kind that covers the
\* maximal run starting at the call's first character
RunToken(kind) ==
    LET k == position_of(result.start)
        stop == run_stop(k + 1, kind)
        run == SubSeq(source, k, stop - 1)
    IN /\ result.kind = "Some"
       /\ result.tok.type = kind
       /\ result.tok.sym.text = run
       /\ run \in DOMAIN symbols[LexTable]
       /\ symbol_eq(result.tok.sym, symbols[LexTable][run])
       /\ result.end = offset_of(stop)
       /\ Cursor = offset_of(stop)

\* the call c started at a '0' followed by a radix letter that no digit of
\* that radix follows
RadixNoDigits(c) ==
    /\ c.kind # "Start"
    /\ LET k == position_of(c.start)
       IN /\ k + 1 <= Len(source)
          /\ source[k] = "0"
          /\ source[k + 1] \in {"x", "o", "b"}
          /\ k + 2 <= Len(source) => ~is_digit(source[k + 2], radix_of(source[k + 1]))

----------------------------------------------------------------------------
(* Properties of the lexing session.                                       *)

\* C1: span coverage.  Every call of next() starts at the offset where the
\* previous token's lexeme ended, and next() returns None only when the whole
\* source is covered.
C1_SpanCoverage ==
    /\ result.kind \in {"Some", "None"} => result.start = prev.end
    /\ result.kind = "None" => result.start = source_len

\* C2: next() never panics: every call returns Some(token) or None.
C2_NeverPanics == result.kind \in {"Start", "Some", "None"}

\* C3: the end of the token sequence is sticky: once next() has returned
\* None, every later call returns None.
C3_StickyEnd == [][result.kind = "None" => result'.kind = "None"]_vars

\* C7: the operator vector is strictly increasing in lexicographic order,
\* holds each registered spelling exactly once, and add_operator of a
\* spelling already present leaves it unchanged.
C7_RegistrySorted ==
    /\ \A i \in 1..(Len(operators) - 1) : str_lt(operators[i], operators[i + 1])
    /\ Registry = registered
    /\ \A op \in registered : Cardinality({i \in 1..Len(operators) : operators[i] = op}) = 1
    /\ \A op \in registered : add_operator(operators, op) = operators

C7_Witness ==
    /\ Len(operators) >= 2
    /\ Cardinality(registered) = Len(operators)

\* C8: longest operator match.  An Operator token emitted by a call of
\* next() carries a registered spelling that prefixes the remaining input,
\* no registered spelling that prefixes it is longer, and exactly that
\* spelling is consumed.
C8_LongestMatch ==
    [][(operators' = operators /\ result'.kind = "Some" /\ result'.tok.type = "Operator") =>
        LET text == result'.tok.sym.text
            rest == slice_from(result'.start)
        IN /\ text \in Registry
           /\ starts_with(rest, text)
           /\ \A op \in Registry : starts_with(rest, op) => str_len(op) <= str_len(text)
           /\ result'.end = result'.start + str_len(text)
           /\ cursor([chars |-> chars', reversed |-> reversed']) = result'.end]_vars

C8_Witness ==
    /\ result.kind = "Some"
    /\ result.tok.type = "Operator"
    /\ \E op \in Registry :
          /\ Len(op) < Len(result.tok.sym.text)
          /\ starts_with(result.tok.sym.text, op)
    /\ Cursor < source_len

\* C9: maximal munch.  A call whose first character is an identifier-start
\* (whitespace) character returns Identifier (Whitespace) over the maximal
\* run, carrying the interned text of exactly that run, and leaves the first
\* character outside the run unread.
C9_MaximalMunch ==
    (result.kind # "Start" /\ result.start < source_len) =>
        /\ is_xid_start(source[position_of(result.start)]) => RunToken("Identifier")
        /\ is_whitespace(source[position_of(result.start)]) => RunToken("Whitespace")

C9_Witness ==
    /\ result.kind = "Some"
    /\ result.tok.type = "Identifier"
    /\ Len(result.tok.sym.text) >= 2
    /\ Cursor < source_len

\* C10: a radix prefix without digits is not consumed.  The call at the '0'
\* returns Number(I64(0)) covering the '0' alone, and the following call
\* returns the Identifier that starts exactly at the prefix letter.
C10_RadixPrefixNotConsumed ==
    /\ RadixNoDigits(result) =>
          /\ result.kind = "Some"
          /\ result.tok = Number("I64", <<0, 0>>)
          /\ result.end = result.start + 1
          /\ Cursor = result.start + 1
    /\ RadixNoDigits(prev) =>
          /\ prev.kind = "Some"
          /\ prev.tok = Number("I64", <<0, 0>>)
          /\ prev.end = prev.start + 1
          /\ result.start = prev.start + 1
          /\ RunToken("Identifier")

C10_Witness ==
    /\ RadixNoDigits(prev)
    /\ result.kind = "Some"
    /\ result.tok.type = "Identifier"
    /\ Len(result.tok.sym.text) >= 2

----------------------------------------------------------------------------
(* Properties of decimal literals.                                         *)

\* the first position at or after k whose character is neither a decimal
\* digit nor '_'
RECURSIVE skip_digits(_)
skip_digits(k) ==
    IF k <= Len(source) /\ (source[k] \in DecDigits \/ source[k] = "_")
    THEN skip_digits(k + 1)
    ELSE k

\* the literal at position k: where its integer part ends, whether a '.'
\* follows it, and where the fraction (if any) ends
int_end(k) == skip_digits(k + 1)
has_dot(k) == int_end(k) <= Len(source) /\ source[int_end(k)] = "."
frac_end(k) == IF has_dot(k) THEN skip_digits(int_end(k) + 1) ELSE int_end(k)

\* the call c started at a decimal literal whose integer part or fraction is
\* followed by an 'e' or 'E' that no decimal digit follows
ExponentNoDigit(c) ==
    /\ c.kind # "Start"
    /\ c.start < source_len
    /\ source[position_of(c.start)] \in DecDigits
    /\ frac_end(position_of(c.start)) <= Len(source)
    /\ source[frac_end(position_of(c.start))] \in {"e", "E"}
    /\ frac_end(position_of(c.start)) + 1 <= Len(source) =>
          source[frac_end(position_of(c.start)) + 1] \notin DecDigits

\* C11: an exponent marker that no digit follows is not consumed.  The
\* Number token ends before the 'e' or 'E', it is I64 when no '.' was
\* consumed and F64 otherwise, and the following call starts exactly at the
\* marker and returns the Identifier that begins there.
C11_ExponentNotConsumed ==
    /\ ExponentNoDigit(result) =>
          /\ result.kind = "Some"
          /\ result.tok.type = "Number"
          /\ result.tok.tag = IF has_dot(position_of(result.start)) THEN "F64" ELSE "I64"
          /\ result.end = offset_of(frac_end(position_of(result.start)))
          /\ Cursor = result.end
    /\ ExponentNoDigit(prev) =>
          /\ result.start = offset_of(frac_end(position_of(prev.start)))
          /\ RunToken("Identifier")

C11_Witness ==
    /\ ExponentNoDigit(prev)
    /\ has_dot(position_of(prev.start))
    /\ result.kind = "Some"
    /\ result.tok.type = "Identifier"

\* the value in the given radix of the digits at positions j..(i - 1), the
\* '_' among them left out, continuing from the value acc
RECURSIVE literal_value(_, _, _, _)
literal_value(j, i, radix, acc) ==
    IF j >= i THEN acc
    ELSE IF source[j] = "_" THEN literal_value(j + 1, i, radix, acc)
    ELSE literal_value(j + 1, i, radix, acc * radix + to_digit(source[j], radix))

\* the call c started at a decimal integer literal: a run of digits and '_'
\* that is no radix prefix, with no '.' and no exponent after it
IntegerLiteral(c) ==
    /\ c.kind # "Start"
    /\ c.start < source_len
    /\ source[position_of(c.start)] \in DecDigits
    /\ ~has_dot(position_of(c.start))
    /\ ~(/\ int_end(position_of(c.start)) + 1 <= Len(source)
         /\ source[int_end(position_of(c.start))] \in {"e", "E"}
         /\ source[int_end(position_of(c.start)) + 1] \in DecDigits)
    /\ ~(/\ source[position_of(c.start)] = "0"
         /\ position_of(c.start) + 1 <= Len(source)
         /\ source[position_of(c.start) + 1] \in {"x", "o", "b"})

\* C19: underscores never change a numeric value.  A decimal integer literal
\* (of a value within the range of i64) yields Number(I64(v)), v being the
\* value of its digits with every '_' left out, and the scan stops at the end
\* of the run.
C19_UnderscoresIgnored ==
    IntegerLiteral(result) =>
        /\ result.kind = "Some"
        /\ result.tok = Number("I64", <<literal_value(position_of(result.start),
                                                      int_end(position_of(result.start)), 10, 0),
                                        0>>)
        /\ result.end = offset_of(int_end(position_of(result.start)))
        /\ Cursor = result.end

C19_Witness ==
    /\ IntegerLiteral(result)
    /\ result.kind = "Some"
    /\ result.tok.v >= 10
    /\ \E j \in position_of(result.start)..(int_end(position_of(result.start)) - 1) :
          source[j] = "_"

\* the call c started at a decimal literal (a digit that opens no radix
\* prefix)
DecimalLiteral(c) ==
    /\ c.kind # "Start"
    /\ c.start < source_len
    /\ source[position_of(c.start)] \in DecDigits
    /\ ~(/\ source[position_of(c.start)] = "0"
         /\ position_of(c.start) + 1 <= Len(source)
         /\ source[position_of(c.start) + 1] \in {"x", "o", "b"})

\* does the literal at position k have an exponent: an 'e' or 'E' after the
\* integer part or the fraction with a decimal digit right after it
has_exponent(k) ==
    /\ frac_end(k) + 1 <= Len(source)
    /\ source[frac_end(k)] \in {"e", "E"}
    /\ source[frac_end(k) + 1] \in DecDigits

\* where the literal at position k ends
literal_end(k) == IF has_exponent(k) THEN skip_digits(frac_end(k) + 1) ELSE frac_end(k)

\* C29: a '.' directly after the integer part is consumed together with the
\* run of digits and '_' after it, empty or not; the token is Number(F64)
\* exactly when a '.' or an exponent was consumed and Number(I64) otherwise,
\* and the following call starts right after the consumed fraction or
\* exponent.
C29_FractionConsumed ==
    /\ DecimalLiteral(result) =>
          /\ result.kind = "Some"
          /\ result.tok.type = "Number"
          /\ result.tok.tag = IF has_dot(position_of(result.start))
                                 \/ has_exponent(position_of(result.start))
                              THEN "F64" ELSE "I64"
          /\ result.end = offset_of(literal_end(position_of(result.start)))
          /\ Cursor = result.end
    /\ (DecimalLiteral(prev) /\ result.kind \in {"Some", "None"}) =>
          result.start = offset_of(literal_end(position_of(prev.start)))

C29_Witness ==
    /\ DecimalLiteral(prev)
    /\ has_dot(position_of(prev.start))
    /\ frac_end(position_of(prev.start)) = int_end(position_of(prev.start)) + 1
    /\ result.kind = "Some"
    /\ result.start = prev.start + 2

----------------------------------------------------------------------------
(* Properties of radix literals.                                           *)

\* the first position at or after j whose character is neither a digit of
\* the radix nor '_'
RECURSIVE skip_radix_digits(_, _)
skip_radix_digits(j, radix) ==
    IF j <= Len(source) /\ (is_digit(source[j], radix) \/ source[j] = "_")
    THEN skip_radix_digits(j + 1, radix)
    ELSE j

\* the call c started at a '0' followed by a radix letter and a digit of
\* that radix
RadixLiteral(c) ==
    /\ c.kind # "Start"
    /\ position_of(c.start) + 2 <= Len(source)
    /\ source[position_of(c.start)] = "0"
    /\ source[position_of(c.start) + 1] \in {"x", "o", "b"}
    /\ is_digit(source[position_of(c.start) + 2], radix_of(source[position_of(c.start) + 1]))

\* the value the radix literal at position k denotes
radix_value(k) ==
    literal_value(k + 2, skip_radix_digits(k + 2, radix_of(source[k + 1])),
                  radix_of(source[k + 1]), 0)

\* C20: radix literal value.  '0', a radix letter and at least one digit of
\* the radix yield Number(U64(v)), v being the value in that radix (within the
\* range of u64) of the maximal run of digits and '_' after the letter with
\* every '_' left out.
C20_RadixValue ==
    RadixLiteral(result) =>
        /\ result.kind = "Some"
        /\ result.tok = Number("U64", <<radix_value(position_of(result.start)), 0>>)

C20_Witness ==
    /\ RadixLiteral(result)
    /\ result.kind = "Some"
    /\ result.tok.v >= 8
    /\ \E j \in (position_of(result.start) + 2)..Len(source) :
          /\ source[j] = "_"
          /\ j < skip_radix_digits(position_of(result.start) + 2,
                                   radix_of(source[position_of(result.start) + 1]))

\* where the run of digits and '_' of the radix literal at position k ends
radix_end(k) == skip_radix_digits(k + 2, radix_of(source[k + 1]))

\* C26: the character that ends the digit run of a radix literal is not
\* consumed: the scan stops at it and the following call starts there.
C26_RadixTerminator ==
    /\ (RadixLiteral(result) /\ result.kind = "Some") =>
          Cursor = offset_of(radix_end(position_of(result.start)))
    /\ (RadixLiteral(prev) /\ result.kind \in {"Some", "None"}) =>
          result.start = offset_of(radix_end(position_of(prev.start)))

----------------------------------------------------------------------------
(* Properties of the cursor.                                               *)

\* the pushback buffer read from its top to its bottom, the end-of-input
\* sentinel left out
Pushback ==
    SelectSeq([k \in 1..Len(reversed) |-> reversed[Len(reversed) + 1 - k]],
              LAMBDA e : e[1] < source_len)

\* the offsets the following calls of tick() report before the end of input:
\* the pushback buffer, then the unread part of the iterator
Unread ==
    [k \in 1..Len(Pushback) |-> Pushback[k][1]]
        \o [k \in 1..(Len(source) - chars) |-> offset_of(chars + k)]

\* C27: a U+0000 of the source is not the end of input.  When next() returns
\* None, BrokenString or BrokenComment the iterator is exhausted and no
\* character of the source waits in the pushback buffer.
C27_NulIsNotEnd ==
    (\/ result.kind = "None"
     \/ result.kind = "Some" /\ result.tok.type \in {"BrokenString", "BrokenComment"}) =>
        Unread = <<>>

\* C28: pushback invariant.  At every return of next() the pushback buffer
\* followed by the unread part of the iterator lists the offsets of a suffix
\* of the source in strictly increasing order, each pair being the character
\* of the source at its offset, none of them twice.
C28_PushbackInvariant ==
    result.kind \in {"Some", "None"} =>
        /\ \A k \in 1..Len(Pushback) :
              /\ is_char_boundary(Pushback[k][1])
              /\ source[position_of(Pushback[k][1])] = Pushback[k][2]
        /\ \A k \in 1..(Len(Unread) - 1) : Unread[k] < Unread[k + 1]
        /\ \A k \in 1..(Len(Unread) - 1) :
              position_of(Unread[k + 1]) = position_of(Unread[k]) + 1

----------------------------------------------------------------------------
(* Properties of block comments.                                           *)

\* the characters of the source
SourceChars == {source[k] : k \in 1..Len(source)}

\* the call c started at the '/' of a '/*'
AtComment(c) ==
    /\ c.kind # "Start"
    /\ c.start < source_len
    /\ position_of(c.start) + 1 <= Len(source)
    /\ source[position_of(c.start)] = "/"
    /\ source[position_of(c.start) + 1] = "*"

\* Nesting by the depth counter: the position of the '*' of the '*/' that
\* brings the depth d at position j back to 0, or 0 when the source ends
\* first.  After an occurrence of a delimiter the count goes on `step'
\* characters later: 1 counts every occurrence, 2 counts occurrences that do
\* not share a character.
RECURSIVE closing(_, _, _)
closing(j, d, step) ==
    IF j + 1 > Len(source) THEN 0
    ELSE IF source[j] = "/" /\ source[j + 1] = "*" THEN closing(j + step, d + 1, step)
    ELSE IF source[j] = "*" /\ source[j + 1] = "/"
    THEN IF d = 1 THEN j ELSE closing(j + step, d - 1, step)
    ELSE closing(j + 1, d, step)

\* the '*' of the '*/' matching the '/*' at position k, when both ways of
\* counting agree on it, and -1 when they do not
matching(k) ==
    IF closing(k + 2, 1, 1) = closing(k + 2, 1, 2) THEN closing(k + 2, 1, 1) ELSE -1

\* C12: block comment nesting.  For a '/*' whose matching '*/' exists, the
\* token is Comment carrying exactly the text between the two, and the scan
\* stops right after that '*/'.
C12_CommentNesting ==
    (NUL \notin SourceChars /\ AtComment(result) /\ matching(position_of(result.start)) > 0) =>
        /\ result.kind = "Some"
        /\ result.tok = TextToken("Comment",
                                  SubSeq(source, position_of(result.start) + 2,
                                         matching(position_of(result.start)) - 1))
        /\ result.end = offset_of(matching(position_of(result.start)) + 2)
        /\ Cursor = result.end

\* C18: unterminated block comment.  For a '/*' that no '*/' matches, the
\* token is BrokenComment carrying the source text after the '/*' up to the
\* end of the source, and the following call returns None.
C18_BrokenComment ==
    /\ (AtComment(result) /\ matching(position_of(result.start)) = 0) =>
          /\ result.kind = "Some"
          /\ result.tok = TextToken("BrokenComment",
                                    SubSeq(source, position_of(result.start) + 2, Len(source)))
    /\ (AtComment(prev) /\ matching(position_of(prev.start)) = 0) =>
          result.kind = "None"

----------------------------------------------------------------------------
(* Properties of string literals.  The literal's meaning is read off the   *)
(* source text: decode(j, out, uses) walks the source from position j with *)
(* the text out decoded so far and the kinds of piece seen so far, and     *)
(* reports how the literal ends:                                           *)
(*   "quote"      at the closing quote at position pos,                    *)
(*   "eof"        at the end of the source, cause "escape" when that is in *)
(*                the middle of an escape sequence,                        *)
(*   "error"      at an escape that is an error: cause "byte" (a \xHH      *)
(*                above 0x7f), "overlong", "nonhex" or "scalar",           *)
(*   "unclaimed"  at an escape sequence of another form, cause "empty" for *)
(*                '\u{}'.                                                  *)

\* the call c started at a '"'
AtString(c) ==
    /\ c.kind # "Start"
    /\ c.start < source_len
    /\ source[position_of(c.start)] = "\""

Outcome(end, cause, text, pos, uses) ==
    [end |-> end, cause |-> cause, text |-> text, pos |-> pos, uses |-> uses]

\* is v a Unicode scalar value
ScalarValue(v) == (0 <= v /\ v <= 55295) \/ (57344 <= v /\ v <= 1114111)

\* the number of hex digits in a row from position j on
RECURSIVE hex_count(_)
hex_count(j) ==
    IF j <= Len(source) /\ is_digit(source[j], 16) THEN 1 + hex_count(j + 1) ELSE 0

\* the value of the n hex digits from position j on
RECURSIVE hex_value(_, _)
hex_value(j, n) ==
    IF n = 0 THEN 0 ELSE hex_value(j, n - 1) * 16 + to_digit(source[j + n - 1], 16)

RECURSIVE decode(_, _, _)

\* '\u' at positions j, j + 1, followed by '{', n hex digits and position s
decode_braced(j, out, uses, n, s) ==
    IF n >= 7 THEN Outcome("error", "overlong", out, j, uses)
    ELSE IF s > Len(source) THEN Outcome("eof", "escape", out, j, uses)
    ELSE IF source[s] = "}"
    THEN IF n = 0 THEN Outcome("unclaimed", "empty", out, j, uses)
         ELSE IF ScalarValue(hex_value(j + 3, n))
         THEN decode(s + 1, Append(out, hex_value(j + 3, n)), uses \cup {"unicode"})
         ELSE Outcome("error", "scalar", out, j, uses)
    ELSE IF n = 6 THEN Outcome("error", "overlong", out, j, uses)
    ELSE Outcome("error", "nonhex", out, j, uses)

\* '\u' at positions j, j + 1
decode_unicode(j, out, uses) ==
    IF j + 2 > Len(source) THEN Outcome("eof", "escape", out, j, uses)
    ELSE IF source[j + 2] # "{" THEN Outcome("unclaimed", "", out, j, uses)
    ELSE decode_braced(j, out, uses, hex_count(j + 3), j + 3 + hex_count(j + 3))

\* '\x' at positions j, j + 1
decode_byte(j, out, uses) ==
    IF j + 2 > Len(source) THEN Outcome("eof", "escape", out, j, uses)
    ELSE IF ~is_digit(source[j + 2], 16) THEN Outcome("unclaimed", "", out, j, uses)
    ELSE IF j + 3 > Len(source) THEN Outcome("eof", "escape", out, j, uses)
    ELSE IF ~is_digit(source[j + 3], 16) THEN Outcome("unclaimed", "", out, j, uses)
    ELSE IF hex_value(j + 2, 2) <= 127
    THEN decode(j + 4, Append(out, hex_value(j + 2, 2)), uses \cup {"byte"})
    ELSE Outcome("error", "byte", out, j, uses)

\* '\' at position j
decode_escape(j, out, uses) ==
    IF j + 1 > Len(source) THEN Outcome("eof", "escape", out, j, uses)
    ELSE CASE source[j + 1] = "n" -> decode(j + 2, Append(out, 10), uses \cup {"simple"})
           [] source[j + 1] = "t" -> decode(j + 2, Append(out, 9), uses \cup {"simple"})
           [] source[j + 1] = "\\" -> decode(j + 2, Append(out, 92), uses \cup {"simple"})
           [] source[j + 1] = "\"" -> decode(j + 2, Append(out, 34), uses \cup {"simple"})
           [] source[j + 1] = "x" -> decode_byte(j, out, uses)
           [] source[j + 1] = "u" -> decode_unicode(j, out, uses)
           [] OTHER -> Outcome("unclaimed", "", out, j, uses)

decode(j, out, uses) ==
    IF j > Len(source) THEN Outcome("eof", "", out, j, uses)
    ELSE IF source[j] = "\"" THEN Outcome("quote", "", out, j, uses)
    ELSE IF source[j] = "\\" THEN decode_escape(j, out, uses)
    ELSE decode(j + 1, Append(out, Code(source[j])),
                uses \cup {IF source[j] = NUL THEN "nul" ELSE "plain"})

\* the meaning of the literal the call c started at
Literal(c) == decode(position_of(c.start) + 1, <<>>, {})

\* C13: unterminated string payload.  When the source ends before the
\* closing quote (and not inside an escape sequence), the token is
\* BrokenString carrying the text decoded since the opening quote.
C13_BrokenStringPayload ==
    (NUL \notin SourceChars /\ AtString(result) /\ Literal(result).end = "eof"
        /\ Literal(result).cause = "") =>
        /\ result.kind = "Some"
        /\ result.tok = TextToken("BrokenString", Literal(result).text)

\* C14: the end of the source in the middle of an escape sequence yields
\* BrokenString, not Error.
C14_BrokenEscape ==
    (NUL \notin SourceChars /\ AtString(result) /\ Literal(result).end = "eof"
        /\ Literal(result).cause = "escape") =>
        /\ result.kind = "Some"
        /\ result.tok.type = "BrokenString"

\* C15: byte escape range.  A '\xHH' with a value in 0x80..0xff yields
\* Error; one with a value in 0x00..0x7f is decoded to that character.
C15_ByteEscapeRange ==
    /\ (NUL \notin SourceChars /\ AtString(result) /\ Literal(result).end = "error"
           /\ Literal(result).cause = "byte") =>
          /\ result.kind = "Some"
          /\ result.tok.type = "Error"
    /\ (AtString(result) /\ Literal(result).end = "quote"
           /\ Literal(result).uses \subseteq {"plain", "byte"}) =>
          /\ result.kind = "Some"
          /\ result.tok = TextToken("String", Literal(result).text)

\* C16: Unicode escape rules.  '\u{', 1 to 6 hex digits and '}' decode to the
\* code point of that value; a seventh character other than '}' yields the
\* overlong Error, a character that is not a hex digit among the first six
\* yields Error, and a value that is no Unicode scalar value yields Error.
C16_UnicodeEscape ==
    /\ (AtString(result) /\ Literal(result).end = "error"
           /\ Literal(result).cause \in {"overlong", "nonhex", "scalar"}
           /\ Literal(result).uses \subseteq {"plain", "unicode"}) =>
          /\ result.kind = "Some"
          /\ result.tok.type = "Error"
          /\ Literal(result).cause = "overlong" =>
                result.tok.msg = "overlong unicode escape (can have at most 6 hex digits)"
    /\ (AtString(result) /\ Literal(result).end = "quote"
           /\ Literal(result).uses \subseteq {"plain", "unicode"}) =>
          /\ result.kind = "Some"
          /\ result.tok = TextToken("String", Literal(result).text)

C16_Witness ==
    /\ AtString(result)
    /\ Literal(result).end = "quote"
    /\ "unicode" \in Literal(result).uses
    /\ \E k \in 1..Len(result.tok.text) : result.tok.text[k] > 65535

\* C17: string decoding.  The escapes \n, \t, \\ and \" decode to newline,
\* tab, backslash and quote, every other character is copied unchanged, and
\* the first unescaped quote ends the literal with the String token of the
\* decoded text, the scan stopping right after that quote.
C17_StringDecoding ==
    (AtString(result) /\ Literal(result).end = "quote"
        /\ Literal(result).uses \subseteq {"plain", "nul", "simple"}) =>
        /\ result.kind = "Some"
        /\ result.tok = TextToken("String", Literal(result).text)
        /\ result.end = offset_of(Literal(result).pos + 1)
        /\ Cursor = result.end

\* C30: a Unicode escape with no hex digit, '\u{}', is reported as an Error
\* token; next() does not panic on it.
C30_EmptyUnicodeEscape ==
    (AtString(result) /\ Literal(result).end = "unclaimed"
        /\ Literal(result).cause = "empty"
        /\ Literal(result).uses \subseteq {"plain", "simple", "byte", "unicode"}) =>
        /\ result.kind = "Some"
        /\ result.tok.type = "Error"

----------------------------------------------------------------------------
(* Properties of the dispatch.                                             *)

\* the token types the scanner selected by the first characters of rest
\* can return
Dispatched(rest) ==
    IF is_xid_start(rest[1]) THEN {"Identifier"}
    ELSE IF is_whitespace(rest[1]) THEN {"Whitespace"}
    ELSE IF rest[1] \in DecDigits THEN {"Number"}
    ELSE IF rest[1] = "\"" THEN {"String", "BrokenString", "Error"}
    ELSE IF starts_with(rest, <<"/", "*">>) THEN {"Comment", "BrokenComment"}
    ELSE {"Operator"}

\* C21: dispatch priority.  The first character (the first two for '/*')
\* selects the scanner in the order identifier, whitespace, number, string,
\* comment, operator; so no Operator token carries a spelling that begins
\* with an identifier-start character, a whitespace character, a decimal
\* digit, a quote or '/*'.
C21_DispatchPriority ==
    (result.kind = "Some" /\ result.start < source_len) =>
        /\ result.tok.type \in Dispatched(slice_from(result.start))
        /\ result.tok.type = "Operator" =>
              Dispatched(result.tok.sym.text) = {"Operator"}

C21_Witness ==
    /\ result.kind = "Some"
    /\ result.tok.type = "BrokenComment"
    /\ \E op \in Registry : starts_with(slice_from(result.start), op)

----------------------------------------------------------------------------
(* Properties of the Table.                                                *)

Interned(T) == {returned[i][2] : i \in {j \in 1..Len(returned) : returned[j][1] = T}}

C5_OneEntryPerText ==
    /\ \A T \in Tables :
          /\ DOMAIN symbols[T] = Interned(T)
          /\ \A t \in DOMAIN symbols[T] : symbols[T][t].text = t
    /\ \A i, j \in 1..Len(returned) :
          returned[i][1] = returned[j][1] =>
              (symbol_eq(returned[i][3], returned[j][3]) <=> returned[i][2] = returned[j][2])
    /\ \A i \in 1..Len(returned) :
          symbol_eq(returned[i][3], symbols[returned[i][1]][returned[i][2]])

C5_Witness ==
    \E i, j, k \in 1..Len(returned) :
        /\ i < j
        /\ returned[i][1] = returned[j][1]
        /\ returned[i][1] = returned[k][1]
        /\ returned[i][2] = returned[j][2]
        /\ returned[i][2] # returned[k][2]

\* C6: the Table grows monotonically and only through intern of a new text;
\* is_interned changes nothing and answers true exactly for the texts
\* interned earlier on that Table.
C6_Membership ==
    \A T \in Tables, t \in TableTexts : is_interned(symbols[T], t) <=> t \in Interned(T)

C6_Step ==
    /\ \A T \in Tables : \A t \in DOMAIN symbols[T] :
          t \in DOMAIN symbols'[T] /\ symbols'[T][t] = symbols[T][t]
    /\ returned' = returned => symbols' = symbols
    /\ returned' # returned =>
          LET e == returned'[Len(returned')]
          IN /\ e[2] \in DOMAIN symbols[e[1]] => symbols' = symbols
             /\ e[2] \notin DOMAIN symbols[e[1]] =>
                   /\ DOMAIN symbols'[e[1]] = DOMAIN symbols[e[1]] \cup {e[2]}
                   /\ \A T \in Tables \ {e[1]} : symbols'[T] = symbols[T]
    /\ query' # query =>
          /\ symbols' = symbols
          /\ query'.answer = (query'.text \in Interned(query'.table))

C6_TableFrame == [](C6_Membership) /\ [][C6_Step]_vars

C6_Witness ==
    /\ query.answer
    /\ \E i, j \in 1..Len(returned) :
          /\ i < j
          /\ returned[i][1] = returned[j][1]
          /\ returned[i][2] = returned[j][2]
    /\ \E T \in Tables : Cardinality(DOMAIN symbols[T]) >= 2

----------------------------------------------------------------------------
(* Properties of SliceDFA::eval.                                           *)

\* the component the loop is at, when its index is in bounds
AtComponent(kind) ==
    /\ dfa.state < Len(dfa.components)
    /\ dfa.components[dfa.state + 1].kind = kind

\* the symbols eval has not consumed: the pending one and the iterator's rest
Pending(d) == d.next_input \o d.input

\* the slots of the buffer that were written
Written(d) == {k \in 1..Len(d.output) : d.output[k] # Blank}

\* C22: eval terminates.  For every component list with valid Input and
\* Jump targets, every start state, every input and every output buffer, a
\* call that has entered its loop leaves it after finitely many iterations.
C22_EvalTerminates == (dfa.pc = "loop") ~> (dfa.pc \in {"return", "panic"})

\* C23: eval never writes beyond the output buffer.  An Output component
\* reached with the buffer full makes eval return (output.len(), index of
\* that component) and leaves the buffer as it is; the buffer never changes
\* its length; and in every return the first result is the number of slots
\* written, which is at most output.len().
C23_Step ==
    /\ dfa.pc = "loop" => Len(dfa'.output) = Len(dfa.output)
    /\ (dfa.pc = "loop" /\ AtComponent("Output") /\ dfa.outc >= Len(dfa.output)) =>
          /\ dfa'.pc = "return"
          /\ dfa'.ret = <<Len(dfa.output), dfa.state>>
          /\ dfa'.output = dfa.output

C23_Returns ==
    dfa.pc = "return" =>
        /\ Written(dfa) = 1..dfa.ret[1]
        /\ dfa.ret[1] <= Len(dfa.output)

C23_OutputBounded == [](C23_Returns) /\ [][C23_Step]_vars

C23_Witness ==
    /\ dfa.pc = "return"
    /\ AtComponent("Output")
    /\ Len(dfa.output) > 0
    /\ dfa.ret = <<Len(dfa.output), dfa.state>>

\* C24: stepping.  An iteration at an Input component consumes the pending
\* symbol exactly when it equals the component's symbol, and the state is
\* then the component's target; on a mismatch the state is the next index and
\* the symbol stays pending; with no symbol pending eval returns (outputs
\* written, index of that Input).  An iteration at an Output component with
\* room writes its value into the first free slot and moves to the next
\* index, so the written slots hold the values in visiting order.  Nothing
\* else consumes input or writes a slot.
C24_InputStep(c) ==
    /\ dfa'.output = dfa.output
    /\ dfa'.outc = dfa.outc
    /\ dfa.next_input = <<>> =>
          /\ dfa'.pc = "return"
          /\ dfa'.ret = <<Cardinality(Written(dfa)), dfa.state>>
    /\ (dfa.next_input # <<>> /\ dfa.next_input[1] = c.i) =>
          /\ dfa'.pc = "loop"
          /\ dfa'.state = c.next_state
          /\ Pending(dfa') = Tail(Pending(dfa))
    /\ (dfa.next_input # <<>> /\ dfa.next_input[1] # c.i) =>
          /\ dfa'.pc = "loop"
          /\ dfa'.state = dfa.state + 1
          /\ Pending(dfa') = Pending(dfa)

C24_OutputStep(c) ==
    /\ Pending(dfa') = Pending(dfa)
    /\ dfa.outc < Len(dfa.output) =>
          /\ dfa'.pc = "loop"
          /\ dfa'.state = dfa.state + 1
          /\ dfa'.outc = dfa.outc + 1
          /\ dfa'.output = [dfa.output EXCEPT ![dfa.outc + 1] = c.o]
          /\ Written(dfa') = 1..(dfa.outc + 1)

C24_JumpStep ==
    /\ Pending(dfa') = Pending(dfa)
    /\ dfa'.output = dfa.output
    /\ dfa'.outc = dfa.outc

C24_Step ==
    (dfa.pc = "loop" /\ dfa.state < Len(dfa.components)) =>
        /\ AtComponent("Input") => C24_InputStep(dfa.components[dfa.state + 1])
        /\ AtComponent("Output") => C24_OutputStep(dfa.components[dfa.state + 1])
        /\ AtComponent("Jump") => C24_JumpStep

C24_Stepping == [][C24_Step]_vars

\* a return at an exhausted Input with more outputs written than there are
\* Output components, in a list without Jump: an Input was matched on the way
C24_Witness ==
    /\ dfa.pc = "return"
    /\ AtComponent("Input")
    /\ dfa.next_input = <<>>
    /\ \A k \in 1..Len(dfa.components) : dfa.components[k].kind # "Jump"
    /\ dfa.ret[1] > Cardinality({k \in 1..Len(dfa.components) : dfa.components[k].kind = "Output"})
    /\ dfa.ret[2] = dfa.state

----------------------------------------------------------------------------
(* Properties of exec_function.                                            *)

\* the instructions of the latest call before its k-th one
Earlier(k) == SubSeq(exec.func, 1, k - 1)

\* the k-th instruction of the latest call is a Divide that exec_function
\* reaches, the instructions before it having run to their end and left the
\* frame left.reg, with two Integer operands and the divisor 0
DividesByZero(inst, left) ==
    /\ inst.verb = "Divide"
    /\ left.kind = "Ok"
    /\ left.reg[inst.src + 1].type = "Integer"
    /\ left.reg[inst.tgt + 1].type = "Integer"
    /\ left.reg[inst.tgt + 1].i = 0

StopsAt(k, left) ==
    DividesByZero(exec.func[k], left) =>
        /\ exec.res.kind = "Err"
        /\ exec.res.error = "DivisionByZero"
        /\ exec.res.pc = k - 1
        /\ exec.reg = left.reg

\* C25: integer division by zero.  When exec_function reaches a Divide with
\* two Integer operands and the divisor 0, the call returns
\* Err(DivisionByZero) and the frame is the one the earlier instructions
\* left: the destination register is not written, the registers written
\* before keep their values and no later instruction runs.
C25_DivisionByZero ==
    exec.pc = "done" =>
        \A k \in 1..Len(exec.func) : StopsAt(k, exec_function(Earlier(k), exec.given))

\* a division by zero after an instruction that wrote a register and before
\* an instruction that would have written another value
C25_Witness ==
    /\ exec.pc = "done"
    /\ exec.res.error = "DivisionByZero"
    /\ exec.res.pc = 1
    /\ Len(exec.func) = 3
    /\ exec.reg # exec.given
    /\ exec.given[exec.func[2].dst + 1] = Uncalculated
    /\ exec_function(<<exec.func[3]>>, exec.reg).kind = "Ok"
    /\ exec_function(<<exec.func[3]>>, exec.reg).reg # exec.reg

\* C33: the state index stays in bounds.  An iteration of the loop that
\* starts at an index below components.len() leaves the state at an index
\* below components.len(), and the call never panics on the lookup
\* self.components[state] after such an iteration.
C33_Step ==
    (dfa.pc = "loop" /\ dfa.state < Len(dfa.components)) =>
        /\ dfa'.state < Len(dfa.components)
        /\ dfa'.pc # "panic"

C33_StateInBounds == [][C33_Step]_vars

\* the instruction is a Modulus that exec_function reaches, the instructions
\* before it having run to their end and left the frame left.reg, with two
\* Integer operands and the divisor 0
ModulusByZero(inst, left) ==
    /\ inst.verb = "Modulus"
    /\ left.kind = "Ok"
    /\ left.reg[inst.src + 1].type = "Integer"
    /\ left.reg[inst.tgt + 1].type = "Integer"
    /\ left.reg[inst.tgt + 1].i = 0

ModulusStopsAt(k, left) ==
    ModulusByZero(exec.func[k], left) =>
        /\ exec.res.kind = "Err"
        /\ exec.res.error = "DivisionByZero"
        /\ exec.reg = left.reg

\* C32: integer Modulus by zero is handled like integer Divide.  When
\* exec_function reaches a Modulus with two Integer operands and the divisor
\* 0, the call returns Err(DivisionByZero), does not panic and leaves the
\* frame as the earlier instructions left it, the destination register
\* unwritten.
C32_ModulusByZero ==
    exec.pc = "done" =>
        \A k \in 1..Len(exec.func) : ModulusStopsAt(k, exec_function(Earlier(k), exec.given))

----------------------------------------------------------------------------
(* The Lexer's use of its Table.                                           *)

\* the texts a returned token is emitted with as a Symbol
EmittedTexts(r) ==
    IF r.kind = "Some" /\ r.tok.type \in {"Identifier", "Whitespace", "Operator"}
    THEN {slice(r.start, r.end)}
    ELSE {}

\* C31: lexing touches the Table only for emitted text.  A call of next()
\* adds to the Lexer's Table at most the text of the Identifier, Whitespace
\* or Operator token it returns, and that text is interned afterwards; a
\* call that returns a number, a string, a comment, an error or the end of
\* input leaves the Table as it was; and no other Table changes.
C31_Step ==
    /\ (DOMAIN symbols'[LexTable]) \ (DOMAIN symbols[LexTable]) \subseteq EmittedTexts(result')
    /\ EmittedTexts(result') \subseteq DOMAIN symbols'[LexTable]
    /\ \A T \in Tables \ {LexTable} : symbols'[T] = symbols[T]

C31_TableFrame == [][C31_Step]_vars

----------------------------------------------------------------------------
(* Properties of integer_fits_in_type and shrink_integer.                  *)

Unsigned(tp) == tp \in {"U8", "U16", "U32", "U64"}

\* the number of bits of an integer type
Bits(tp) ==
    CASE tp \in {"U8", "I8"} -> 8
      [] tp \in {"U16", "I16"} -> 16
      [] tp \in {"U32", "I32"} -> 32
      [] tp \in {"U64", "I64"} -> 64

\* the largest magnitude of a negative and of a non-negative value of tp
MagnitudeBelow(tp) == IF Unsigned(tp) THEN Zero64 ELSE pow2(Bits(tp) - 1)
MagnitudeAbove(tp) ==
    IF ~Unsigned(tp) THEN u64_dec(pow2(Bits(tp) - 1))
    ELSE IF Bits(tp) = 64 THEN <<65535, 65535, 65535, 65535>>
    ELSE u64_dec(pow2(Bits(tp)))

\* the signed value (-number if negative, else number) lies within the range of tp
InRange(num, negative, tp) ==
    IF negative THEN u64_le(num, MagnitudeBelow(tp)) ELSE u64_le(num, MagnitudeAbove(tp))

\* C34: integer_fits_in_type is true exactly when the signed value lies
\* within the range of the integer type; a negative non-zero number does
\* not fit an unsigned type, and shrink_integer returns None for it.
C34_FitsInType ==
    shrink.pc = "done" =>
        /\ shrink.fits <=> InRange(shrink.number, shrink.negative, shrink.tp)
        /\ (shrink.negative /\ shrink.number # Zero64 /\ Unsigned(shrink.tp)) =>
              /\ ~shrink.fits
              /\ shrink.ret.kind = "None"

====
